---- MODULE Spec2Model ----
(***************************************************************************)
(* Validation and referential-integrity engine of AustinsDatabase:         *)
(* DatabaseManager (src/databaseManager.py) working on the SQLite schema   *)
(* that setupDatabase (src/main.py) creates, the console's main loop       *)
(* (src/main.py) and the routes of the web front end (src/frontend.py).    *)
(***************************************************************************)
EXTENDS Integers, Sequences, FiniteSets, TLC

VARIABLES
    db,       \* committed contents of the store: table name -> set of rows
    seq,      \* sqlite_sequence: AUTOINCREMENT table -> largest rowid ever handed out
    last,     \* the call made last and what its caller observed
    nops,     \* number of calls made so far
    pc,       \* per session: position inside the running call; the console: in
              \* its menu or ended
    req,      \* per session: the call the session makes
    ses,      \* per session: working data of the running call; the console: its
              \* global isEmpty and the file its connection is to
    lock,     \* the session holding the store's write lock, or NoSession
    pend,     \* the lock holder's uncommitted image of the store
    master    \* sqlite_master: table name -> the definition the table was created with

vars == <<db, seq, last, nops, pc, req, ses, lock, pend, master>>

(***************************************************************************)
(* Values.  A Python / SQLite value is None (NULL), an integer, a real or  *)
(* a text; reals of the model are whole numbers carrying the tag "real".   *)
(***************************************************************************)
None == <<"null">>
IntV(n) == <<"int", n>>
RealV(n) == <<"real", n>>
TextV(s) == <<"text", s>>

IsNone(v) == v[1] = "null"
IsInt(v) == v[1] = "int"
IsReal(v) == v[1] = "real"
IsText(v) == v[1] = "text"
IsNum(v) == v[1] \in {"int", "real"}

\* the texts that Python's int() parses, with the integer each one denotes
IntOf ==
    [s \in {"0", "1", "2", "3", "9", "-1", "5", "1899", "1900", "2008"} |->
        CASE s = "0" -> 0 [] s = "1" -> 1 [] s = "2" -> 2 [] s = "3" -> 3
          [] s = "9" -> 9 [] s = "-1" -> 0 - 1 [] s = "5" -> 5
          [] s = "1899" -> 1899 [] s = "1900" -> 1900 [] s = "2008" -> 2008]

\* the texts that Python's float() parses: every integer text and "2.0"
RealOf ==
    [s \in DOMAIN IntOf \cup {"2.0"} |-> IF s = "2.0" THEN 2 ELSE IntOf[s]]

\* texts of the model in lexicographic (code point) order; only texts that
\* are ever compared with < appear here
TextOrder ==
    << "", "10/08/2025", "2025-08-05", "2025-08-10", "2025-08-12",
       "2025-10-01", "2025-9-1", "2026-11-06", "2999-01-01" >>

Rank(s) == CHOOSE i \in 1..Len(TextOrder) : TextOrder[i] = s

\* texts that datetime.strptime(value, "%Y-%m-%d") accepts
StrptimeOk ==
    {"2025-08-05", "2025-08-10", "2025-08-12", "2025-10-01", "2025-9-1",
     "2026-11-06", "2999-01-01"}

\* the day that datetime.strptime(value, "%Y-%m-%d") reads from a text it
\* accepts, as year * 10000 + month * 100 + day
DayOf ==
    [s \in StrptimeOk |->
        CASE s = "2025-08-05" -> 20250805 [] s = "2025-08-10" -> 20250810
          [] s = "2025-08-12" -> 20250812 [] s = "2025-10-01" -> 20251001
          [] s = "2025-9-1" -> 20250901 [] s = "2026-11-06" -> 20261106
          [] s = "2999-01-01" -> 29990101]

\* texts that contain the character @
ContainsAt == {"a@b.co", "a@b"}

\* texts that match the SQL pattern '_%@_%._%'
LikeEmailPattern == {"a@b.co"}

\* the value of CURRENT_DATE when the statements run
CurrentDate == "2026-11-06"

(***************************************************************************)
(* Python expressions used by DatabaseManager.                             *)
(***************************************************************************)
\* the outcome of a conversion that raised
ValueErrorV == <<"error", "ValueError">>
TypeErrorV == <<"error", "TypeError">>
Raised(v) == v[1] = "error"

\* int(v)
PyInt(v) ==
    CASE IsInt(v) -> v
      [] IsReal(v) -> IntV(v[2])
      [] IsText(v) -> IF v[2] \in DOMAIN IntOf THEN IntV(IntOf[v[2]]) ELSE ValueErrorV
      [] OTHER -> TypeErrorV

\* float(v)
PyFloat(v) ==
    CASE IsInt(v) -> RealV(v[2])
      [] IsReal(v) -> v
      [] IsText(v) -> IF v[2] \in DOMAIN RealOf THEN RealV(RealOf[v[2]]) ELSE ValueErrorV
      [] OTHER -> TypeErrorV

\* str(v)
PyStr(v) ==
    CASE IsText(v) -> v
      [] IsInt(v) -> TextV(ToString(v[2]))
      [] IsReal(v) -> TextV(ToString(v[2]) \o ".0")
      [] OTHER -> TextV("None")

\* bool(v)
Truthy(v) ==
    CASE IsNone(v) -> FALSE
      [] IsText(v) -> v[2] # ""
      [] OTHER -> v[2] # 0

\* the element of a one-element set: Only({e(x) : x \in {v}}) is e(v) with v
\* computed once
Only(S) == CHOOSE y \in S : TRUE

\* data.get(key) and data.get(key, default)
Get(data, key) == IF key \in DOMAIN data THEN data[key] ELSE None
GetD(data, key, default) == IF key \in DOMAIN data THEN data[key] ELSE default

(***************************************************************************)
(* The schema that setupDatabase creates.  A column is its name, its       *)
(* declared type as PRAGMA table_info reports it, its NOT NULL flag and    *)
(* its role in the primary key: "auto" (INTEGER PRIMARY KEY AUTOINCREMENT),*)
(* "rowid" (INTEGER PRIMARY KEY), "part" (member of a composite key) or    *)
(* "no".                                                                   *)
(***************************************************************************)
Col(n, t, nn, pk) == [name |-> n, type |-> t, notnull |-> nn, pk |-> pk]

Schema ==
    [ Suppliers |->
        << Col("SupplierID", "INTEGER", FALSE, "auto"),
           Col("Name", "TEXT", TRUE, "no"),
           Col("Contact", "TEXT", TRUE, "no"),
           Col("Address", "TEXT", TRUE, "no"),
           Col("Additional", "TEXT", FALSE, "no") >>,
      Parts |->
        << Col("PartID", "INTEGER", FALSE, "auto"),
           Col("Name", "TEXT", TRUE, "no"),
           Col("Description", "TEXT", FALSE, "no"),
           Col("StockQTY", "INTEGER", TRUE, "no") >>,
      PartSuppliers |->
        << Col("PartID", "INTEGER", TRUE, "part"),
           Col("SupplierID", "INTEGER", TRUE, "part"),
           Col("PurchasePrice", "REAL", TRUE, "no") >>,
      Customers |->
        << Col("CustomerID", "INTEGER", FALSE, "auto"),
           Col("FirstName", "TEXT", TRUE, "no"),
           Col("LastName", "TEXT", TRUE, "no"),
           Col("Email", "TEXT", FALSE, "no"),
           Col("Phone", "TEXT", FALSE, "no"),
           Col("Address", "TEXT", TRUE, "no") >>,
      RepairItems |->
        << Col("ItemID", "INTEGER", FALSE, "auto"),
           Col("RepairType", "TEXT", TRUE, "no"),
           Col("CustomerID", "INTEGER", TRUE, "no"),
           Col("Name", "TEXT", TRUE, "no"),
           Col("Description", "TEXT", FALSE, "no") >>,
      CarDetails |->
        << Col("ItemID", "INTEGER", FALSE, "rowid"),
           Col("Make", "TEXT", TRUE, "no"),
           Col("Model", "TEXT", TRUE, "no"),
           Col("Year", "INTEGER", FALSE, "no"),
           Col("EngineSize", "REAL", FALSE, "no"),
           Col("Additional", "TEXT", FALSE, "no") >>,
      ComputerDetails |->
        << Col("ItemID", "INTEGER", FALSE, "rowid"),
           Col("Brand", "TEXT", TRUE, "no"),
           Col("RAM", "INTEGER", FALSE, "no"),
           Col("Storage", "INTEGER", FALSE, "no"),
           Col("CPU", "TEXT", TRUE, "no") >>,
      RepairJobs |->
        << Col("RepairID", "INTEGER", FALSE, "auto"),
           Col("JobType", "TEXT", TRUE, "no"),
           Col("DateReceived", "DATE", TRUE, "no"),
           Col("DateCompleted", "DATE", FALSE, "no"),
           Col("Status", "TEXT", FALSE, "no"),
           Col("Price", "REAL", FALSE, "no"),
           Col("RepairItemID", "INTEGER", TRUE, "no") >>,
      RepairItemParts |->
        << Col("ItemID", "INTEGER", TRUE, "part"),
           Col("PartID", "INTEGER", TRUE, "part"),
           Col("Quantity", "INTEGER", TRUE, "no") >>,
      Products |->
        << Col("ProductID", "INTEGER", FALSE, "auto"),
           Col("Category", "TEXT", TRUE, "no"),
           Col("Quantity", "INTEGER", TRUE, "no"),
           Col("Name", "TEXT", TRUE, "no"),
           Col("Description", "TEXT", FALSE, "no"),
           Col("Price", "REAL", TRUE, "no") >>,
      Sales |->
        << Col("SaleID", "INTEGER", FALSE, "auto"),
           Col("SaleDate", "DATE", TRUE, "no"),
           Col("SaleAmount", "REAL", TRUE, "no"),
           Col("CustomerID", "INTEGER", TRUE, "no") >>,
      SoldItems |->
        << Col("SaleItemID", "INTEGER", FALSE, "auto"),
           Col("ProductID", "INTEGER", TRUE, "no"),
           Col("SaleID", "INTEGER", TRUE, "no"),
           Col("Quantity", "INTEGER", TRUE, "no"),
           Col("UnitPrice", "REAL", TRUE, "no") >> ]

Tables == DOMAIN Schema

\* FOREIGN KEY(col) REFERENCES ptable(pcol), for every table
Fk(c, pt, pc_) == [col |-> c, ptable |-> pt, pcol |-> pc_]

ForeignKeys ==
    [ Suppliers |-> {},
      Parts |-> {},
      PartSuppliers |-> { Fk("PartID", "Parts", "PartID"),
                          Fk("SupplierID", "Suppliers", "SupplierID") },
      Customers |-> {},
      RepairItems |-> { Fk("CustomerID", "Customers", "CustomerID") },
      CarDetails |-> { Fk("ItemID", "RepairItems", "ItemID") },
      ComputerDetails |-> { Fk("ItemID", "RepairItems", "ItemID") },
      RepairJobs |-> { Fk("RepairItemID", "RepairItems", "ItemID") },
      RepairItemParts |-> { Fk("ItemID", "RepairItems", "ItemID"),
                            Fk("PartID", "Parts", "PartID") },
      Products |-> {},
      Sales |-> { Fk("CustomerID", "Customers", "CustomerID") },
      SoldItems |-> { Fk("ProductID", "Products", "ProductID"),
                      Fk("SaleID", "Sales", "SaleID") } ]

ColumnsOf(t) == Schema[t]
ColNames(t) == {Schema[t][i].name : i \in 1..Len(Schema[t])}
ColDef(t, c) == Schema[t][CHOOSE i \in 1..Len(Schema[t]) : Schema[t][i].name = c]
PkCols(t) == {Schema[t][i].name : i \in {j \in 1..Len(Schema[t]) : Schema[t][j].pk # "no"}}
\* the column that aliases the rowid, for tables that have one
RowidCol(t) == CHOOSE c \in PkCols(t) : TRUE
HasRowidAlias(t) == \E c \in PkCols(t) : ColDef(t, c).pk \in {"auto", "rowid"}
IsAutoincrement(t) == \E c \in PkCols(t) : ColDef(t, c).pk = "auto"

(***************************************************************************)
(* The store: SQLite executing one statement against the schema above.     *)
(***************************************************************************)
\* column affinity applied to a value that is about to be stored
Affinity(type, v) ==
    CASE type = "INTEGER" ->
            IF IsText(v) /\ v[2] \in DOMAIN RealOf THEN IntV(RealOf[v[2]])
            ELSE IF IsReal(v) THEN IntV(v[2]) ELSE v
      [] type = "REAL" ->
            IF IsText(v) /\ v[2] \in DOMAIN RealOf THEN RealV(RealOf[v[2]])
            ELSE IF IsInt(v) THEN RealV(v[2]) ELSE v
      [] type = "TEXT" -> IF IsNum(v) THEN PyStr(v) ELSE v
      [] OTHER ->     \* DATE: NUMERIC affinity
            IF IsText(v) /\ v[2] \in DOMAIN RealOf THEN IntV(RealOf[v[2]])
            ELSE IF IsReal(v) THEN IntV(v[2]) ELSE v

\* SQL comparison: -1, 0, 1, or 2 when an operand is NULL; numbers sort
\* before texts, texts sort by code point
SqlCmp(a, b) ==
    IF IsNone(a) \/ IsNone(b) THEN 2
    ELSE IF IsNum(a) /\ IsNum(b)
         THEN (IF a[2] < b[2] THEN 0 - 1 ELSE IF a[2] = b[2] THEN 0 ELSE 1)
    ELSE IF IsNum(a) THEN 0 - 1
    ELSE IF IsNum(b) THEN 1
    ELSE IF a[2] = b[2] THEN 0
    ELSE IF Rank(a[2]) < Rank(b[2]) THEN 0 - 1 ELSE 1

\* SQL equality of two stored values (TRUE only for a definite match)
SqlEq(a, b) ==
    /\ ~IsNone(a)
    /\ ~IsNone(b)
    /\ IF IsNum(a) /\ IsNum(b) THEN a[2] = b[2]
       ELSE IsText(a) /\ IsText(b) /\ a[2] = b[2]

\* a CHECK constraint fails only when its expression is false, not when it
\* is NULL
CkNotEmpty(v) == IsNone(v) \/ ~SqlEq(v, TextV(""))
CkGe(v, w) == SqlCmp(v, w) \in {0, 1, 2}
CkGt(v, w) == SqlCmp(v, w) \in {1, 2}
CkLe(v, w) == SqlCmp(v, w) \in {0 - 1, 0, 2}
CkIn(v, S) == IsNone(v) \/ (IsText(v) /\ v[2] \in S)
CkLike(v) == IsNone(v) \/ (IsText(v) /\ v[2] \in LikeEmailPattern)

\* the CHECK constraints of each table
StoreChecks(t, r) ==
    CASE t = "Suppliers" ->
            CkNotEmpty(r.Name) /\ CkNotEmpty(r.Contact) /\ CkNotEmpty(r.Address)
      [] t = "Parts" -> CkNotEmpty(r.Name) /\ CkGe(r.StockQTY, IntV(0))
      [] t = "PartSuppliers" -> CkGt(r.PurchasePrice, IntV(0))
      [] t = "Customers" ->
            /\ CkNotEmpty(r.FirstName) /\ CkNotEmpty(r.LastName)
            /\ CkLike(r.Email) /\ CkNotEmpty(r.Address)
      [] t = "RepairItems" ->
            CkIn(r.RepairType, {"Car", "Computer"}) /\ CkNotEmpty(r.Name)
      [] t = "CarDetails" -> CkGe(r.Year, IntV(1900)) /\ CkGt(r.EngineSize, IntV(0))
      [] t = "ComputerDetails" -> CkGe(r.RAM, IntV(0)) /\ CkGe(r.Storage, IntV(0))
      [] t = "RepairJobs" ->
            /\ CkLe(r.DateReceived, TextV(CurrentDate))
            /\ CkGe(r.DateCompleted, r.DateReceived)
            /\ CkIn(r.Status, {"Pending", "In Progress", "Completed", "Archived"})
            /\ CkGe(r.Price, IntV(0))
      [] t = "RepairItemParts" -> CkGt(r.Quantity, IntV(0))
      [] t = "Products" ->
            /\ CkIn(r.Category, {"Laptop", "Desktop", "Other"})
            /\ CkGe(r.Quantity, IntV(0)) /\ CkGt(r.Price, IntV(0))
      [] t = "Sales" ->
            CkLe(r.SaleDate, TextV(CurrentDate)) /\ CkGt(r.SaleAmount, IntV(0))
      [] t = "SoldItems" -> CkGt(r.Quantity, IntV(0)) /\ CkGt(r.UnitPrice, IntV(0))

\* PRAGMA foreign_keys = ON, issued by every connection
ForeignKeysOff == FALSE
ForeignKeysOn == TRUE

NotNullOk(t, r) == \A c \in ColNames(t) : ColDef(t, c).notnull => ~IsNone(r[c])

\* an INTEGER PRIMARY KEY column only holds integers
RowidTypeOk(t, r) == HasRowidAlias(t) => IsInt(r[RowidCol(t)])

\* the primary key identifies the rows of a table
KeyOf(t, r) == [c \in PkCols(t) |-> r[c]]
PkUnique(t, rows) == \A r1, r2 \in rows : KeyOf(t, r1) = KeyOf(t, r2) => r1 = r2

\* every non-NULL foreign-key value of table t names a parent row
FkHoldsFor(d, t) ==
    \A f \in ForeignKeys[t] : \A r \in d[t] :
        IsNone(r[f.col]) \/ \E p \in d[f.ptable] : SqlEq(p[f.pcol], r[f.col])

FkHolds(d) == \A t \in Tables : FkHoldsFor(d, t)

MaxOf(S) == IF S = {} THEN 0 ELSE CHOOSE m \in S : \A x \in S : x <= m
Rowids(d, t) == {r[RowidCol(t)][2] : r \in d[t]}

StoreOk(d, sq, n) == [err |-> "", detail |-> "", db |-> d, seq |-> sq, count |-> n]
StoreErr(d, sq, kind, what) ==
    [err |-> kind, detail |-> what, db |-> d, seq |-> sq, count |-> 0]

\* PRIMARY KEY: a written row may not repeat the key of a row that stays
\* or of another written row.  First the declaration that leaves the
\* junction tables without their composite key.
KeyCollisionRowidOnly(t, kept, w) ==
    /\ HasRowidAlias(t)
    /\ \/ \E i, j \in DOMAIN w : i # j /\ KeyOf(t, w[i]) = KeyOf(t, w[j])
       \/ \E i \in DOMAIN w : \E u \in kept : KeyOf(t, w[i]) = KeyOf(t, u)
KeyCollision(t, kept, w) ==
    /\ PkCols(t) # {}
    /\ \/ \E i, j \in DOMAIN w : i # j /\ KeyOf(t, w[i]) = KeyOf(t, w[j])
       \/ \E i \in DOMAIN w : \E u \in kept : KeyOf(t, w[i]) = KeyOf(t, u)

\* the first constraint violated by a statement that keeps the rows `kept`
\* of table t and writes the rows w[i], in the order SQLite reports them,
\* or "" when there is none
Violation(d, t, kept, w) ==
    LET written == {w[i] : i \in DOMAIN w}
        newTable == kept \cup written
    IN  IF \E r \in written : ~RowidTypeOk(t, r) THEN "datatype mismatch"
        ELSE IF \E r \in written : ~NotNullOk(t, r) THEN "NOT NULL constraint failed"
        ELSE IF \E r \in written : ~StoreChecks(t, r) THEN "CHECK constraint failed"
        ELSE IF KeyCollision(t, kept, w) THEN "UNIQUE constraint failed"
        ELSE IF ForeignKeysOn /\ ~FkHolds([d EXCEPT ![t] = newTable])
             THEN "FOREIGN KEY constraint failed"
        ELSE ""

\* SQLite finds a table whatever the letter case its name is spelled in
OtherSpellings == [repairjobs |-> "RepairJobs"]
Resolve(name) == IF name \in DOMAIN OtherSpellings THEN OtherSpellings[name] ELSE name

\* INSERT INTO t (keys of data) VALUES (values of data)
StoreInsert(d, sq, t, data) ==
    IF t \notin Tables THEN StoreErr(d, sq, "OperationalError", "no such table")
    ELSE IF DOMAIN data = {} THEN StoreErr(d, sq, "OperationalError", "syntax error")
    ELSE IF ~(DOMAIN data \subseteq ColNames(t))
         THEN StoreErr(d, sq, "OperationalError", "no such column")
    ELSE
    LET given == [c \in ColNames(t) |-> Affinity(ColDef(t, c).type, Get(data, c))]
        rc == RowidCol(t)
        fresh == IF IsAutoincrement(t)
                 THEN MaxOf(Rowids(d, t) \cup {sq[t]}) + 1
                 ELSE MaxOf(Rowids(d, t)) + 1
        row == IF HasRowidAlias(t) /\ IsNone(given[rc])
               THEN [given EXCEPT ![rc] = IntV(fresh)] ELSE given
        v == Violation(d, t, d[t], [i \in {0} |-> row])
        sq2 == IF IsAutoincrement(t) /\ IsInt(row[rc]) /\ row[rc][2] > sq[t]
               THEN [sq EXCEPT ![t] = row[rc][2]] ELSE sq
    IN  IF v # "" THEN StoreErr(d, sq, "IntegrityError", v)
        ELSE StoreOk([d EXCEPT ![t] = d[t] \cup {row}], sq2, 1)

\* a WHERE condition: <<"all">> (such as 1=1) or <<"eq", column, n>>
\* (such as ItemID=1)
Matches(cond, r) ==
    IF cond[1] = "all" THEN TRUE ELSE SqlEq(r[cond[2]], IntV(cond[3]))

CondOk(t, cond) == cond[1] = "all" \/ cond[2] \in ColNames(t)

\* the rows of table t that a row of another table references
Referenced(d, t) ==
    {r \in d[t] : \E c \in Tables : \E f \in ForeignKeys[c] :
                     f.ptable = t /\ \E k \in d[c] : SqlEq(k[f.col], r[f.pcol])}

\* DELETE that removes row by row and keeps what it removed before the row
\* it is refused on
StoreDeleteRowwise(d, sq, t, cond) ==
    IF t \notin Tables THEN StoreErr(d, sq, "OperationalError", "no such table")
    ELSE IF ~CondOk(t, cond) THEN StoreErr(d, sq, "OperationalError", "no such column")
    ELSE
    LET gone == {r \in d[t] : Matches(cond, r)}
        free == gone \ Referenced(d, t)
    IN  IF free # gone
        THEN StoreErr([d EXCEPT ![t] = d[t] \ free], sq, "IntegrityError",
                      "FOREIGN KEY constraint failed")
        ELSE StoreOk([d EXCEPT ![t] = d[t] \ gone], sq, Cardinality(gone))

\* DELETE FROM t WHERE cond: the statement removes every matching row or none
StoreDelete(d, sq, t, cond) ==
    IF t \notin Tables THEN StoreErr(d, sq, "OperationalError", "no such table")
    ELSE IF ~CondOk(t, cond) THEN StoreErr(d, sq, "OperationalError", "no such column")
    ELSE
    LET gone == {r \in d[t] : Matches(cond, r)}
        d2 == [d EXCEPT ![t] = d[t] \ gone]
    IN  IF ForeignKeysOn /\ ~FkHolds(d2)
        THEN StoreErr(d, sq, "IntegrityError", "FOREIGN KEY constraint failed")
        ELSE StoreOk(d2, sq, Cardinality(gone))

\* UPDATE t SET (keys of updates) = (values of updates) WHERE cond
StoreUpdate(d, sq, t, updates, cond) ==
    IF t \notin Tables THEN StoreErr(d, sq, "OperationalError", "no such table")
    ELSE IF DOMAIN updates = {} THEN StoreErr(d, sq, "OperationalError", "syntax error")
    ELSE IF ~(DOMAIN updates \subseteq ColNames(t)) \/ ~CondOk(t, cond)
         THEN StoreErr(d, sq, "OperationalError", "no such column")
    ELSE
    LET hit == {r \in d[t] : Matches(cond, r)}
        w == [r \in hit |->
                [c \in ColNames(t) |->
                    IF c \in DOMAIN updates
                    THEN Affinity(ColDef(t, c).type, updates[c]) ELSE r[c]]]
        v == Violation(d, t, d[t] \ hit, w)
    IN  IF v # "" THEN StoreErr(d, sq, "IntegrityError", v)
        ELSE StoreOk([d EXCEPT ![t] = (d[t] \ hit) \cup {w[r] : r \in hit}], sq,
                     Cardinality(hit))

\* SELECT 1 FROM t WHERE column = value
\* (the value is compared under the affinity of the column)
StoreProbe(d, t, column, value) ==
    \E r \in d[t] : SqlEq(r[column], Affinity(ColDef(t, column).type, value))

(***************************************************************************)
(* DatabaseManager.                                                        *)
(***************************************************************************)
\* float() applied to the values of INTEGER columns too
ConvertAsReal(type, v) ==
    CASE type \in {"INTEGER", "REAL"} -> PyFloat(v)
      [] OTHER -> PyStr(v)
\* the conversion that convertDataTypes applies for a declared type
ConvertValue(type, v) ==
    CASE type = "INTEGER" -> PyInt(v)
      [] type = "REAL" -> PyFloat(v)
      [] OTHER -> PyStr(v)

\* the conversion applied to null values too
RECURSIVE ConvertFromNulls(_, _, _)
ConvertFromNulls(cols, i, data) ==
    IF i > Len(cols) THEN [err |-> "", col |-> "", type |-> "", data |-> data]
    ELSE LET c == cols[i].name IN
         IF c \in DOMAIN data
         THEN LET v == ConvertValue(cols[i].type, data[c]) IN
              IF Raised(v)
              THEN [err |-> v[2], col |-> c, type |-> cols[i].type, data |-> data]
              ELSE ConvertFromNulls(cols, i + 1, [data EXCEPT ![c] = v])
         ELSE ConvertFromNulls(cols, i + 1, data)

\* convertDataTypes, from the i-th column of PRAGMA table_info on: the
\* mapping converted so far, or the column whose conversion raised
RECURSIVE ConvertFrom(_, _, _)
ConvertFrom(cols, i, data) ==
    IF i > Len(cols) THEN [err |-> "", col |-> "", type |-> "", data |-> data]
    ELSE LET c == cols[i].name IN
         IF c \in DOMAIN data /\ ~IsNone(data[c])
         THEN LET v == ConvertValue(cols[i].type, data[c]) IN
              IF Raised(v)
              THEN [err |-> v[2], col |-> c, type |-> cols[i].type, data |-> data]
              ELSE ConvertFrom(cols, i + 1, [data EXCEPT ![c] = v])
         ELSE ConvertFrom(cols, i + 1, data)

\* PRAGMA table_info(tableName): no rows for a table that does not exist
TableInfo(tableName) ==
    IF Resolve(tableName) \in Tables THEN Schema[Resolve(tableName)] ELSE << >>

convertDataTypes(tableName, data) == ConvertFrom(TableInfo(tableName), 1, data)

\* a lookup that takes a null value for a reference that exists
foreignKeyExistsOrNull(d, tableName, column, value) ==
    IsNone(value) \/ StoreProbe(d, tableName, column, value)
foreignKeyExists(d, tableName, column, value) == StoreProbe(d, tableName, column, value)

isValidDate(value) == IsText(value) /\ value[2] \in StrptimeOk

\* what a rule check yields: it passes, or it raises
Pass == <<"pass">>
ValErr(msg) == <<"ValueError", msg>>
TypeErr == <<"TypeError", "'<' not supported">>

\* `raise ValueError(msg)` under `if v < n` and under `if v <= n`
RaiseIfLt(v, n, msg) ==
    IF ~IsNum(v) THEN TypeErr ELSE IF v[2] < n THEN ValErr(msg) ELSE Pass
\* `if v < n` written where `if v <= n` is meant
RaiseIfBelow(v, n, msg) ==
    IF ~IsNum(v) THEN TypeErr ELSE IF v[2] < n THEN ValErr(msg) ELSE Pass
RaiseIfLe(v, n, msg) ==
    IF ~IsNum(v) THEN TypeErr ELSE IF v[2] <= n THEN ValErr(msg) ELSE Pass
RaiseIf(cond, msg) == IF cond THEN ValErr(msg) ELSE Pass

\* checks that all run, the last one that raises deciding the outcome
RECURSIVE LastRaise(_, _)
LastRaise(checks, i) ==
    IF i > Len(checks) THEN Pass
    ELSE Only({ IF rest # Pass THEN rest ELSE checks[i]
                : rest \in {LastRaise(checks, i + 1)} })

\* the first check of a sequence that raises decides the outcome
RECURSIVE FirstRaise(_, _)
FirstRaise(checks, i) ==
    IF i > Len(checks) THEN Pass
    ELSE IF checks[i] # Pass THEN checks[i] ELSE FirstRaise(checks, i + 1)

\* the checks of validateData for each table, in source order
RuleChecks(d, tableName, data) ==
    CASE tableName = "Suppliers" ->
        << RaiseIf(~Truthy(Get(data, "Name")) \/ ~Truthy(Get(data, "Contact"))
                      \/ ~Truthy(Get(data, "Address")),
                   "Supplier Name, Contact, and Address cannot be empty") >>
      [] tableName = "Parts" ->
        << RaiseIf(~Truthy(Get(data, "Name")), "Part name cannot be empty"),
           RaiseIfLt(GetD(data, "StockQTY", IntV(0)), 0, "Stock quantity must be >= 0") >>
      [] tableName = "PartSuppliers" ->
        << RaiseIfLe(GetD(data, "PurchasePrice", IntV(0)), 0, "PurchasePrice must be > 0"),
           RaiseIf(~foreignKeyExists(d, "Parts", "PartID", Get(data, "PartID")),
                   "PartID does not exist"),
           RaiseIf(~foreignKeyExists(d, "Suppliers", "SupplierID", Get(data, "SupplierID")),
                   "SupplierID does not exist") >>
      [] tableName = "Customers" ->
        << RaiseIf(~Truthy(Get(data, "FirstName")) \/ ~Truthy(Get(data, "LastName"))
                      \/ ~Truthy(Get(data, "Address")),
                   "Customer must have first name, last name, and address"),
           RaiseIf("Email" \in DOMAIN data /\ Truthy(Get(data, "Email"))
                      /\ Get(data, "Email")[2] \notin ContainsAt,
                   "Email format invalid") >>
      [] tableName = "RepairItems" ->
        << RaiseIf(Get(data, "RepairType") \notin {TextV("Car"), TextV("Computer")},
                   "RepairType must be 'Car' or 'Computer'"),
           RaiseIf(~foreignKeyExists(d, "Customers", "CustomerID", Get(data, "CustomerID")),
                   "CustomerID does not exist"),
           RaiseIf(~Truthy(Get(data, "Name")), "Repair item must have a name") >>
      [] tableName = "CarDetails" ->
        << RaiseIf(~foreignKeyExists(d, "RepairItems", "ItemID", Get(data, "ItemID")),
                   "ItemID does not exist in RepairItems"),
           RaiseIf(~Truthy(Get(data, "Make")) \/ ~Truthy(Get(data, "Model")),
                   "Make and Model are required"),
           IF "Year" \in DOMAIN data
           THEN RaiseIfLt(data["Year"], 1900, "Year must be between 1900 and current year")
           ELSE Pass,
           IF "EngineSize" \in DOMAIN data
           THEN RaiseIfLe(data["EngineSize"], 0, "EngineSize must be > 0")
           ELSE Pass >>
      [] tableName = "ComputerDetails" ->
        << RaiseIf(~foreignKeyExists(d, "RepairItems", "ItemID", Get(data, "ItemID")),
                   "ItemID does not exist in RepairItems"),
           RaiseIf(~Truthy(Get(data, "Brand")) \/ ~Truthy(Get(data, "CPU")),
                   "Brand and CPU are required"),
           IF "RAM" \in DOMAIN data
           THEN RaiseIfLt(data["RAM"], 0, "RAM must be >= 0") ELSE Pass,
           IF "Storage" \in DOMAIN data
           THEN RaiseIfLt(data["Storage"], 0, "Storage must be >= 0") ELSE Pass >>
      [] tableName = "RepairJobs" ->
        << RaiseIf(~foreignKeyExists(d, "RepairItems", "ItemID", Get(data, "RepairItemID")),
                   "RepairItemID does not exist"),
           IF "Price" \in DOMAIN data
           THEN RaiseIfLt(data["Price"], 0, "Price must be >= 0") ELSE Pass,
           RaiseIf(Truthy(Get(data, "DateReceived")) /\ ~isValidDate(Get(data, "DateReceived")),
                   "DateReceived must be in YYYY-MM-DD format"),
           RaiseIf(Truthy(Get(data, "DateCompleted")) /\ ~isValidDate(Get(data, "DateCompleted")),
                   "DateCompleted must be in YYYY-MM-DD format"),
           RaiseIf(/\ Truthy(Get(data, "DateReceived")) /\ isValidDate(Get(data, "DateReceived"))
                   /\ Truthy(Get(data, "DateCompleted")) /\ isValidDate(Get(data, "DateCompleted"))
                   /\ Rank(Get(data, "DateCompleted")[2]) < Rank(Get(data, "DateReceived")[2]),
                   "DateCompleted cannot be before DateReceived"),
           RaiseIf("Status" \in DOMAIN data
                      /\ Get(data, "Status") \notin {TextV("Pending"), TextV("In Progress"),
                                                     TextV("Completed"), TextV("Archived")},
                   "Status invalid") >>
      [] tableName = "RepairItemParts" ->
        << RaiseIfLe(GetD(data, "Quantity", IntV(0)), 0, "Quantity must be > 0"),
           RaiseIf(~foreignKeyExists(d, "RepairItems", "ItemID", Get(data, "ItemID")),
                   "ItemID does not exist"),
           RaiseIf(~foreignKeyExists(d, "Parts", "PartID", Get(data, "PartID")),
                   "PartID does not exist") >>
      [] tableName = "Products" ->
        << IF ~Truthy(Get(data, "Name")) \/ ~Truthy(Get(data, "Category"))
           THEN ValErr("Product must have Name, Category, and Price > 0")
           ELSE RaiseIfLe(GetD(data, "Price", IntV(0)), 0,
                          "Product must have Name, Category, and Price > 0"),
           RaiseIf(Get(data, "Category") \notin {TextV("Laptop"), TextV("Desktop"), TextV("Other")},
                   "Category must be 'Laptop','Desktop', or 'Other'"),
           RaiseIfLt(GetD(data, "Quantity", IntV(0)), 0, "Quantity cannot be negative") >>
      [] tableName = "Sales" ->
        << RaiseIf(~foreignKeyExists(d, "Customers", "CustomerID", Get(data, "CustomerID")),
                   "CustomerID does not exist"),
           IF "SaleAmount" \in DOMAIN data
           THEN RaiseIfLe(data["SaleAmount"], 0, "SaleAmount must be > 0") ELSE Pass,
           RaiseIf(Truthy(Get(data, "SaleDate")) /\ ~isValidDate(Get(data, "SaleDate")),
                   "SaleDate must be in YYYY-MM-DD format") >>
      [] tableName = "SoldItems" ->
        << RaiseIf(~foreignKeyExists(d, "Products", "ProductID", Get(data, "ProductID")),
                   "ProductID does not exist"),
           RaiseIf(~foreignKeyExists(d, "Sales", "SaleID", Get(data, "SaleID")),
                   "SaleID does not exist"),
           RaiseIfLe(GetD(data, "Quantity", IntV(0)), 0, "Quantity must be > 0"),
           RaiseIfLe(GetD(data, "UnitPrice", IntV(0)), 0, "UnitPrice must be > 0") >>
      [] OTHER -> << >>

validateData(d, tableName, data) == FirstRaise(RuleChecks(d, tableName, data), 1)

\* what the caller of a DatabaseManager method observes, and the store after
\* the call: `raised` is the class of the exception that reaches the caller
\* ("" when the method returns normally), `printed` the line the method
\* prints, `stages` the stages the call completed, `store` the error the
\* store answered the statement with ("" when it ran or was never issued)
Outcome(d, sq, raised, msg, printed, stages, store) ==
    [db |-> d, seq |-> sq, raised |-> raised, msg |-> msg, printed |-> printed,
     stages |-> stages, store |-> store]

\* the outcomes of insert by the stage at which the call ends
CoercionFailed(d, sq, c) ==
    Outcome(d, sq, c.err, c.col \o " must be of type " \o c.type, "", <<"Received">>, "")
ValidationFailed(d, sq, v) ==
    Outcome(d, sq, v[1], v[2], "", <<"Received", "Coerced">>, "")
StatementFailed(d, sq, r) ==
    Outcome(r.db, r.seq, r.err, r.detail, "", <<"Received", "Coerced", "Validated">>, r.err)
Inserted(r) ==
    Outcome(r.db, r.seq, "", "", "Inserted",
            <<"Received", "Coerced", "Validated", "Applied", "Committed">>, "")

\* insert issuing its INSERT statement before it validates
insertThenValidate(d, sq, tableName, data) ==
    Only({ IF c.err # "" THEN CoercionFailed(d, sq, c)
           ELSE Only({ Only({ IF v # Pass
                              THEN (IF r.err = "" THEN ValidationFailed(r.db, r.seq, v)
                                    ELSE ValidationFailed(d, sq, v))
                              ELSE IF r.err # "" THEN StatementFailed(d, sq, r)
                              ELSE Inserted(r)
                              : v \in {validateData(d, tableName, c.data)} })
                       : r \in {StoreInsert(d, sq, Resolve(tableName), c.data)} })
           : c \in {convertDataTypes(tableName, data)} })

\* DatabaseManager.insert
insert(d, sq, tableName, data) ==
    Only({ IF c.err # "" THEN CoercionFailed(d, sq, c)
           ELSE Only({ IF v # Pass THEN ValidationFailed(d, sq, v)
                       ELSE Only({ IF r.err # "" THEN StatementFailed(d, sq, r)
                                   ELSE Inserted(r)
                                   : r \in {StoreInsert(d, sq, Resolve(tableName), c.data)} })
                       : v \in {validateData(d, tableName, c.data)} })
           : c \in {convertDataTypes(tableName, data)} })

\* DatabaseManager.deleteRecord
deleteRecord(d, sq, tableName, condition) ==
    Only({ IF r.err # ""
           THEN Outcome(r.db, r.seq, "", r.detail,
                        "Cannot delete record due to foreign key constraints",
                        <<"Received">>, r.err)
           ELSE Outcome(r.db, r.seq, "", "", "Record(s) deleted",
                        <<"Received", "Applied", "Committed">>, "")
           : r \in {StoreDelete(d, sq, Resolve(tableName), condition)} })

\* DatabaseManager.updateRecord
updateRecord(d, sq, tableName, updates, condition) ==
    Only({ IF r.err # ""
           THEN Outcome(r.db, r.seq, "", r.detail,
                        "Cannot update record due to foreign key constraints",
                        <<"Received">>, r.err)
           ELSE Outcome(r.db, r.seq, "", "", "Record(s) updated",
                        <<"Received", "Applied", "Committed">>, "")
           : r \in {StoreUpdate(d, sq, Resolve(tableName), updates, condition)} })

(***************************************************************************)
(* Inputs.                                                                 *)
(***************************************************************************)
\* number of calls a behaviour makes after setup and population
MaxOps == 1

\* the rows populateDatabase inserts, two or one per table instead of ten
SeedRows ==
    << <<"Suppliers", [Name |-> TextV("x"), Contact |-> TextV("x"), Address |-> TextV("x"),
                       Additional |-> TextV("")]>>,
       <<"Suppliers", [Name |-> TextV("y"), Contact |-> TextV("x"), Address |-> TextV("x"),
                       Additional |-> TextV("x")]>>,
       <<"Parts", [Name |-> TextV("x"), Description |-> TextV("x"), StockQTY |-> IntV(5)]>>,
       <<"Parts", [Name |-> TextV("y"), Description |-> TextV("x"), StockQTY |-> IntV(2)]>>,
       <<"PartSuppliers", [PartID |-> IntV(1), SupplierID |-> IntV(1),
                           PurchasePrice |-> RealV(5)]>>,
       <<"Customers", [FirstName |-> TextV("x"), LastName |-> TextV("x"),
                       Email |-> TextV("a@b.co"), Phone |-> TextV("x"),
                       Address |-> TextV("x")]>>,
       <<"Customers", [FirstName |-> TextV("y"), LastName |-> TextV("x"),
                       Email |-> TextV("a@b.co"), Phone |-> TextV("x"),
                       Address |-> TextV("x")]>>,
       <<"RepairItems", [RepairType |-> TextV("Computer"), CustomerID |-> IntV(1),
                         Name |-> TextV("x"), Description |-> TextV("x")]>>,
       <<"RepairItems", [RepairType |-> TextV("Car"), CustomerID |-> IntV(1),
                         Name |-> TextV("x"), Description |-> TextV("x")]>>,
       <<"Products", [Category |-> TextV("Desktop"), Quantity |-> IntV(3),
                      Name |-> TextV("x"), Description |-> TextV("x"), Price |-> RealV(5)]>>,
       <<"Sales", [SaleDate |-> TextV("2025-08-05"), SaleAmount |-> RealV(5),
                   CustomerID |-> IntV(1)]>>,
       <<"SoldItems", [ProductID |-> IntV(1), SaleID |-> IntV(1), Quantity |-> IntV(1),
                       UnitPrice |-> RealV(5)]>>,
       <<"ComputerDetails", [ItemID |-> IntV(1), Brand |-> TextV("x"), RAM |-> IntV(5),
                             Storage |-> IntV(5), CPU |-> TextV("x")]>>,
       <<"CarDetails", [ItemID |-> IntV(2), Make |-> TextV("x"), Model |-> TextV("3"),
                        Year |-> IntV(2008), EngineSize |-> RealV(2),
                        Additional |-> TextV("x")]>>,
       <<"RepairJobs", [JobType |-> TextV("x"), DateReceived |-> TextV("2025-08-10"),
                        DateCompleted |-> None, Status |-> TextV("In Progress"),
                        Price |-> RealV(5), RepairItemID |-> IntV(1)]>>,
       <<"RepairItemParts", [ItemID |-> IntV(1), PartID |-> IntV(1), Quantity |-> IntV(1)]>> >>

\* a record that passes every rule of its table on the populated database,
\* as the console collects it (texts)
BaseRecord ==
    [ Suppliers |-> [Name |-> TextV("x"), Contact |-> TextV("x"), Address |-> TextV("x")],
      Parts |-> [Name |-> TextV("x"), StockQTY |-> TextV("5")],
      PartSuppliers |-> [PartID |-> TextV("2"), SupplierID |-> TextV("1"),
                         PurchasePrice |-> TextV("5")],
      Customers |-> [FirstName |-> TextV("x"), LastName |-> TextV("x"),
                     Email |-> TextV("a@b.co"), Address |-> TextV("x")],
      RepairItems |-> [RepairType |-> TextV("Car"), CustomerID |-> TextV("1"),
                       Name |-> TextV("x")],
      CarDetails |-> [ItemID |-> IntV(1), Make |-> TextV("x"), Model |-> TextV("x"),
                      Year |-> TextV("2008"), EngineSize |-> TextV("2.0")],
      ComputerDetails |-> [ItemID |-> IntV(2), Brand |-> TextV("x"), RAM |-> TextV("5"),
                           CPU |-> TextV("x")],
      RepairJobs |-> [JobType |-> TextV("x"), DateReceived |-> TextV("2025-08-10"),
                      DateCompleted |-> TextV("2025-08-12"), Status |-> TextV("Pending"),
                      Price |-> TextV("5"), RepairItemID |-> TextV("1")],
      RepairItemParts |-> [ItemID |-> TextV("1"), PartID |-> TextV("2"),
                           Quantity |-> TextV("1")],
      Products |-> [Category |-> TextV("Laptop"), Quantity |-> TextV("5"),
                    Name |-> TextV("x"), Price |-> TextV("5")],
      Sales |-> [SaleDate |-> TextV("2025-08-10"), SaleAmount |-> TextV("5"),
                 CustomerID |-> TextV("1")],
      SoldItems |-> [ProductID |-> TextV("1"), SaleID |-> TextV("1"),
                     Quantity |-> TextV("1"), UnitPrice |-> TextV("5")] ]

\* other values a caller may supply for a column
OtherValues ==
    [ Suppliers |-> [Name |-> {TextV(""), None}, Address |-> {TextV("")}],
      Parts |-> [Name |-> {TextV("")}, StockQTY |-> {TextV("-1"), TextV("abc"), None}],
      PartSuppliers |-> [PartID |-> {TextV("1"), TextV("9")}, SupplierID |-> {TextV("9")},
                         PurchasePrice |-> {TextV("0"), TextV("abc"), TextV("9")}],
      Customers |-> [FirstName |-> {TextV("")},
                     Email |-> {TextV("ab"), TextV("a@b"), TextV("")}],
      RepairItems |-> [RepairType |-> {TextV("Boat"), TextV("car"), TextV("Computer")},
                       CustomerID |-> {TextV("9")},
                       Name |-> {TextV("")}],
      CarDetails |-> [ItemID |-> {IntV(2), IntV(9)}, Make |-> {TextV("")},
                      Year |-> {TextV("1899"), TextV(""), None},
                      EngineSize |-> {TextV("0")}],
      ComputerDetails |-> [ItemID |-> {IntV(1), IntV(9)}, CPU |-> {TextV("")},
                           RAM |-> {TextV("-1")}],
      RepairJobs |-> [JobType |-> {TextV("")},
                      DateReceived |-> {TextV("10/08/2025"), TextV("2999-01-01"),
                                        TextV("2025-10-01")},
                      DateCompleted |-> {TextV("2025-08-05"), TextV("10/08/2025"),
                                         TextV("2025-9-1")},
                      Status |-> {TextV("Done")}, Price |-> {TextV("-1")},
                      RepairItemID |-> {TextV("9")}],
      RepairItemParts |-> [ItemID |-> {TextV("9")}, PartID |-> {TextV("1"), TextV("9")},
                           Quantity |-> {TextV("0"), TextV("2")}],
      Products |-> [Category |-> {TextV("Boat")}, Quantity |-> {TextV("-1")},
                    Name |-> {TextV("")}, Price |-> {TextV("0")}],
      Sales |-> [SaleDate |-> {TextV("10/08/2025"), TextV("2999-01-01")},
                 SaleAmount |-> {TextV("0")}, CustomerID |-> {TextV("9")}],
      SoldItems |-> [ProductID |-> {TextV("9")}, SaleID |-> {TextV("9")},
                     Quantity |-> {TextV("0")}, UnitPrice |-> {TextV("0")}] ]

Without(f, c) == [k \in DOMAIN f \ {c} |-> f[k]]

\* the records offered to insert for table t: the base record, the base
\* record with one column changed, and the base record with one column left out
InsertInputs(t) ==
    {BaseRecord[t]}
      \cup {[BaseRecord[t] EXCEPT ![c] = v] :
                <<c, v>> \in UNION {{c} \X OtherValues[t][c] : c \in DOMAIN OtherValues[t]}}
      \cup {Without(BaseRecord[t], c) : c \in DOMAIN BaseRecord[t]}

\* the updates offered to updateRecord for table t: one column set to
\* another value, or the rowid column set to an unused key
UpdateInputs(t) ==
    {[k \in {c} |-> v] :
        <<c, v>> \in UNION {{c} \X OtherValues[t][c] : c \in DOMAIN OtherValues[t]}}
      \cup (IF HasRowidAlias(t) THEN {[k \in {RowidCol(t)} |-> TextV("9")]} ELSE {})

\* the WHERE conditions offered for table t, on its first column
FirstKeyCol(t) == Schema[t][1].name
DeleteConditions(t) == {<<"all">>, <<"eq", FirstKeyCol(t), 1>>, <<"eq", FirstKeyCol(t), 2>>}
UpdateConditions(t) == {<<"all">>, <<"eq", FirstKeyCol(t), 1>>}

(***************************************************************************)
(* The catalog.  sqlite_master maps a table name to the definition the     *)
(* table was created with; a name that no table has maps to NoTable.       *)
(***************************************************************************)
\* a table name that setupDatabase creates no table for, and a key that
\* names no column of any table
UnknownTable == "Widgets"
UnknownKey == "Nickname"
CallTables == Tables \cup {UnknownTable}

NoTable == << >>
NoMaster == [t \in CallTables |-> NoTable]
\* the catalog that setupDatabase leaves
SetupMaster == [t \in CallTables |-> IF t \in Tables THEN Schema[t] ELSE NoTable]

\* SELECT name FROM sqlite_master WHERE type='table' AND name=?
tableExists(m, tableName) == m[tableName] # NoTable

CreateOutcome(m, d, sq, raised, msg, printed) ==
    [master |-> m, db |-> d, seq |-> sq, raised |-> raised, msg |-> msg, printed |-> printed]

\* DROP TABLE IF EXISTS with foreign keys enforced: the rows of the table
\* are deleted first, which is refused while rows of other tables refer to
\* them; then the table, its rows and its sqlite_sequence entry are gone
DropTable(m, d, sq, t) ==
    IF t \notin Tables
    THEN [err |-> "", detail |-> "", master |-> [m EXCEPT ![t] = NoTable], db |-> d, seq |-> sq]
    ELSE IF ForeignKeysOn /\ Referenced(d, t) # {}
    THEN [err |-> "IntegrityError", detail |-> "FOREIGN KEY constraint failed",
          master |-> m, db |-> d, seq |-> sq]
    ELSE [err |-> "", detail |-> "", master |-> [m EXCEPT ![t] = NoTable],
          db |-> [d EXCEPT ![t] = {}], seq |-> [sq EXCEPT ![t] = 0]]

\* lines 51-62: CREATE TABLE of a name that no table has
CreatedNew(m, d, sq, tableName, columns, printed) ==
    CreateOutcome([m EXCEPT ![tableName] = columns], d, sq, "", "",
                  Append(printed, "Table '" \o tableName \o "' created"))

\* lines 46-48 and then 51-62: the table is dropped and created again
Replaced(m, d, sq, tableName, columns) ==
    Only({ IF r.err # ""
           THEN CreateOutcome(m, d, sq, r.err, r.detail, << >>)
           ELSE CreatedNew(r.master, r.db, r.seq, tableName, columns,
                           << "Table '" \o tableName \o "' was replaced" >>)
           : r \in {DropTable(m, d, sq, tableName)} })

\* lines 49-50
AlreadyExists(m, d, sq, tableName) ==
    CreateOutcome(m, d, sq, "", "", << "Table '" \o tableName \o "' already exists" >>)

\* createTable that replaces an existing table whatever the flag says
createTableReplacing(m, d, sq, tableName, columns, replace) ==
    IF tableExists(m, tableName) THEN Replaced(m, d, sq, tableName, columns)
    ELSE CreatedNew(m, d, sq, tableName, columns, << >>)
createTable(m, d, sq, tableName, columns, replace) ==
    IF tableExists(m, tableName)
    THEN IF replace THEN Replaced(m, d, sq, tableName, columns)
         ELSE AlreadyExists(m, d, sq, tableName)
    ELSE CreatedNew(m, d, sq, tableName, columns, << >>)

(***************************************************************************)
(* One session: the console's database object.                            *)
(***************************************************************************)
NoSession == "none"
EmptyDb == [t \in Tables |-> {}]
NoSeq == [t \in Tables |-> 0]
NoCall ==
    [op |-> "none", table |-> "", data |-> [k \in {} |-> None], cond |-> <<"all">>,
     raised |-> "", msg |-> "", printed |-> "", stages |-> << >>, store |-> ""]

Call(op, t, data, cond, o) ==
    [op |-> op, table |-> t, data |-> data, cond |-> cond, raised |-> o.raised,
     msg |-> o.msg, printed |-> o.printed, stages |-> o.stages, store |-> o.store]

\* populateDatabase: the seed rows inserted in order; an insert that raises
\* ends the population
RECURSIVE PopulateFrom(_, _, _)
PopulateFrom(d, sq, i) ==
    IF i > Len(SeedRows) THEN [db |-> d, seq |-> sq]
    ELSE Only({ IF o.raised # "" THEN [db |-> o.db, seq |-> o.seq]
                ELSE PopulateFrom(o.db, o.seq, i + 1)
                : o \in {insert(d, sq, SeedRows[i][1], SeedRows[i][2])} })

Idle == UNCHANGED <<pc, req, ses, lock, pend, master>>

\* the database right after setupDatabase
Init ==
    /\ db = EmptyDb
    /\ seq = NoSeq
    /\ last = NoCall
    /\ nops = 0
    /\ pc = << >>
    /\ req = << >>
    /\ ses = << >>
    /\ lock = NoSession
    /\ pend = EmptyDb
    /\ master = SetupMaster

Populate ==
    /\ db = EmptyDb
    /\ seq = NoSeq
    /\ nops = 0
    /\ \E p \in {PopulateFrom(db, seq, 1)} : db' = p.db /\ seq' = p.seq
    /\ UNCHANGED <<last, nops>>
    /\ Idle

Insert ==
    /\ nops < MaxOps
    /\ \E t \in Tables : \E data \in InsertInputs(t) :
          \E o \in {insert(db, seq, t, data)} :
          /\ db' = o.db
          /\ seq' = o.seq
          /\ last' = Call("insert", t, data, <<"all">>, o)
    /\ nops' = nops + 1
    /\ Idle

UpdateRecord ==
    /\ nops < MaxOps
    /\ \E t \in Tables : \E updates \in UpdateInputs(t) : \E cond \in UpdateConditions(t) :
          \E o \in {updateRecord(db, seq, t, updates, cond)} :
          /\ db' = o.db
          /\ seq' = o.seq
          /\ last' = Call("update", t, updates, cond, o)
    /\ nops' = nops + 1
    /\ Idle

DeleteRecord ==
    /\ nops < MaxOps
    /\ \E t \in Tables : \E cond \in DeleteConditions(t) :
          \E o \in {deleteRecord(db, seq, t, cond)} :
          /\ db' = o.db
          /\ seq' = o.seq
          /\ last' = Call("delete", t, [k \in {} |-> None], cond, o)
    /\ nops' = nops + 1
    /\ Idle

Next == Populate \/ Insert \/ UpdateRecord \/ DeleteRecord

Spec == Init /\ [][Next]_vars

\* the populated database; it holds every seed row
Populated == PopulateFrom(EmptyDb, NoSeq, 1)
RowCount(d) == LET RECURSIVE Sum(_)
                   Sum(S) == IF S = {} THEN 0
                             ELSE LET t == CHOOSE x \in S : TRUE
                                  IN Cardinality(d[t]) + Sum(S \ {t})
               IN Sum(Tables)
SeedComplete == RowCount(Populated.db) = Len(SeedRows)

(***************************************************************************)
(* Several sessions, each with its own connection to the same database     *)
(* file.  A session makes one call; the statements of a call are separate  *)
(* steps, between which the other sessions run.                            *)
(***************************************************************************)
Inserters == {"A", "B"}
Deleter == "D"
Sessions == Inserters \cup {Deleter}

JunctionTables == {"PartSuppliers", "RepairItemParts"}
ParentTables == {"Parts", "Suppliers", "RepairItems"}

\* the records the inserting sessions offer: the base record of a junction
\* table, or that record with one column changed
JunctionInputs(t) == {d \in InsertInputs(t) : DOMAIN d = DOMAIN BaseRecord[t]}

\* working data of a call that has not started
Fresh ==
    [data |-> [k \in {} |-> None], chk |-> 1, validated |-> FALSE, committed |-> FALSE,
     raised |-> "", msg |-> "", printed |-> "", store |-> "", gone |-> {}, after |-> {}]

\* several connections on the populated database, each about to make a call
InitConc ==
    /\ db = Populated.db
    /\ seq = Populated.seq
    /\ last = NoCall
    /\ nops = 0
    /\ pc = [s \in Sessions |-> "start"]
    /\ \E ta \in JunctionTables : \E da \in JunctionInputs(ta) :
       \E tb \in JunctionTables : \E db2 \in JunctionInputs(tb) :
       \E td \in ParentTables : \E cd \in DeleteConditions(td) :
          req = [s \in Sessions |->
                    CASE s = "A" -> [op |-> "insert", table |-> ta, data |-> da,
                                     cond |-> <<"all">>]
                      [] s = "B" -> [op |-> "insert", table |-> tb, data |-> db2,
                                     cond |-> <<"all">>]
                      [] OTHER -> [op |-> "delete", table |-> td,
                                   data |-> [k \in {} |-> None], cond |-> cd]]
    /\ ses = [s \in Sessions |-> Fresh]
    /\ lock = NoSession
    /\ pend = Populated.db
    /\ master = SetupMaster

Finish(s, raised, msg, printed, store) ==
    /\ pc' = [pc EXCEPT ![s] = "done"]
    /\ ses' = [ses EXCEPT ![s].raised = raised, ![s].msg = msg, ![s].printed = printed,
                          ![s].store = store]

\* insert, line 65: convertDataTypes
Coerce(s) ==
    /\ pc[s] = "start"
    /\ req[s].op = "insert"
    /\ \E c \in {convertDataTypes(req[s].table, req[s].data)} :
       IF c.err # ""
       THEN Finish(s, c.err, c.col \o " must be of type " \o c.type, "", "")
       ELSE /\ pc' = [pc EXCEPT ![s] = "validate"]
            /\ ses' = [ses EXCEPT ![s].data = c.data]
    /\ UNCHANGED <<db, seq, last, nops, req, lock, pend, master>>

\* insert, line 66: the next check of validateData, which reads the
\* committed rows with at most one existence probe
Validate(s) ==
    /\ pc[s] = "validate"
    /\ \E checks \in {RuleChecks(db, req[s].table, ses[s].data)} :
       \E i \in {ses[s].chk} :
           IF i > Len(checks)
           THEN /\ pc' = [pc EXCEPT ![s] = "execute"]
                /\ ses' = [ses EXCEPT ![s].validated = TRUE]
           ELSE IF checks[i] # Pass
           THEN Finish(s, checks[i][1], checks[i][2], "", "")
           ELSE /\ ses' = [ses EXCEPT ![s].chk = i + 1]
                /\ UNCHANGED pc
    /\ UNCHANGED <<db, seq, last, nops, req, lock, pend, master>>

\* deleteRecord makes no check of its own
Begin(s) ==
    /\ pc[s] = "start"
    /\ req[s].op = "delete"
    /\ pc' = [pc EXCEPT ![s] = "execute"]
    /\ UNCHANGED <<db, seq, last, nops, req, ses, lock, pend, master>>

\* cursor.execute: the statement runs in the session's transaction, which
\* takes the write lock; a statement that fails leaves the transaction open
Execute(s) ==
    /\ pc[s] = "execute"
    /\ lock \in {NoSession, s}
    /\ lock' = s
    /\ \E r \in {IF req[s].op = "insert"
                  THEN StoreInsert(db, seq, req[s].table, ses[s].data)
                  ELSE StoreDelete(db, seq, req[s].table, req[s].cond)} :
       \E before \in {{u \in Sessions : ses[u].committed}} :
           IF r.err # ""
           THEN /\ pc' = [pc EXCEPT ![s] = "done"]
                /\ ses' = [ses EXCEPT ![s].raised = IF req[s].op = "insert" THEN r.err ELSE "",
                                      ![s].msg = r.detail,
                                      ![s].printed =
                                          IF req[s].op = "insert" THEN ""
                                          ELSE "Cannot delete record due to foreign key constraints",
                                      ![s].store = r.err,
                                      ![s].after = before]
                /\ pend' = r.db
           ELSE /\ pc' = [pc EXCEPT ![s] = "commit"]
                /\ pend' = r.db
                /\ ses' = [ses EXCEPT ![s].after = before,
                                      ![s].gone = IF req[s].op = "delete"
                                                  THEN db[req[s].table] \ r.db[req[s].table]
                                                  ELSE {}]
    /\ UNCHANGED <<db, seq, last, nops, req, master>>

\* connection.commit
Commit(s) ==
    /\ pc[s] = "commit"
    /\ lock = s
    /\ db' = pend
    /\ lock' = NoSession
    /\ pc' = [pc EXCEPT ![s] = "done"]
    /\ ses' = [ses EXCEPT ![s].committed = TRUE,
                          ![s].printed = IF req[s].op = "insert" THEN "Inserted"
                                         ELSE "Record(s) deleted"]
    /\ UNCHANGED <<seq, last, nops, req, pend, master>>

\* cursor.execute while another connection keeps the write lock in a
\* transaction it never ends: the busy timeout expires.  (A holder that is
\* between its statement and its commit releases the lock within the
\* timeout; the statement then waits, which is Execute.)
Busy(s) ==
    /\ pc[s] = "execute"
    /\ lock \notin {NoSession, s}
    /\ pc[lock] = "done"
    /\ pc' = [pc EXCEPT ![s] = "done"]
    /\ ses' = [ses EXCEPT ![s].raised = IF req[s].op = "insert" THEN "OperationalError" ELSE "",
                          ![s].msg = "database is locked",
                          ![s].printed =
                              IF req[s].op = "insert" THEN ""
                              ELSE "Cannot delete record due to foreign key constraints",
                          ![s].store = "OperationalError"]
    /\ UNCHANGED <<db, seq, last, nops, req, lock, pend, master>>

NextConc ==
    \E s \in Sessions : Coerce(s) \/ Validate(s) \/ Begin(s) \/ Execute(s) \/ Commit(s) \/ Busy(s)

SpecConc == InitConc /\ [][NextConc]_vars

(***************************************************************************)
(* validateData on its own: one record is coerced and then validated       *)
(* against the populated database.                                         *)
(***************************************************************************)
\* the changes of one column that a caller may make to the base record
Changes(t) == UNION {{c} \X OtherValues[t][c] : c \in DOMAIN OtherValues[t]}

\* the records offered to validateData: those offered to insert, the base
\* record with two columns changed, with a key that names no column, with
\* one column changed and a foreign-key column left out, and with a
\* foreign-key column set to null
ValidateInputs(t) ==
    IF Resolve(t) \notin Tables THEN {[k \in {"Name"} |-> TextV("x")]}
    ELSE IF t \notin Tables THEN InsertInputs(Resolve(t))
    ELSE
    InsertInputs(t)
      \cup {[BaseRecord[t] EXCEPT ![p[1]] = p[2], ![q[1]] = q[2]] : p, q \in Changes(t)}
      \cup {[k \in DOMAIN BaseRecord[t] \cup {UnknownKey} |->
                IF k = UnknownKey THEN TextV("5") ELSE BaseRecord[t][k]]}
      \cup {Without([BaseRecord[t] EXCEPT ![p[1]] = p[2]], f.col) :
                p \in {q \in Changes(t) : q[1] \in DOMAIN BaseRecord[t]},
                f \in {g \in ForeignKeys[t] : g.col \in DOMAIN BaseRecord[t]}}
      \cup {[BaseRecord[t] EXCEPT ![f.col] = None] :
                f \in {g \in ForeignKeys[t] : g.col \in DOMAIN BaseRecord[t]}}

Validated(t, data, raised, msg, stages) ==
    [NoCall EXCEPT !.op = "validate", !.table = t, !.data = data, !.raised = raised,
                   !.msg = msg, !.stages = stages]

InitValidate ==
    /\ db = Populated.db
    /\ seq = Populated.seq
    /\ last = NoCall
    /\ nops = 0
    /\ pc = "coerce"
    /\ \E t \in CallTables \cup DOMAIN OtherSpellings : \E data \in ValidateInputs(t) :
          req = [op |-> "validate", table |-> t, data |-> data, cond |-> <<"all">>]
    /\ ses = << >>
    /\ lock = NoSession
    /\ pend = Populated.db
    /\ master = SetupMaster

\* insert, line 65: data = self.convertDataTypes(tableName, data).  req.data
\* is the caller's mapping: lines 22-26 assign the converted values into it,
\* also those converted before a later column raises
CoerceInput ==
    /\ pc = "coerce"
    /\ \E c \in {convertDataTypes(req.table, req.data)} :
          IF c.err # ""
          THEN /\ pc' = "done"
               /\ last' = Validated(req.table, req.data, c.err,
                                    c.col \o " must be of type " \o c.type, <<"Received">>)
               /\ req' = [req EXCEPT !.data = c.data]
          ELSE /\ pc' = "validate"
               /\ req' = [req EXCEPT !.data = c.data]
               /\ UNCHANGED last
    /\ UNCHANGED <<db, seq, nops, ses, lock, pend, master>>

\* insert, line 66: self.validateData(tableName, data)
ValidateInput ==
    /\ pc = "validate"
    /\ \E v \in {validateData(db, req.table, req.data)} :
          last' = IF v = Pass
                  THEN Validated(req.table, req.data, "", "",
                                 <<"Received", "Coerced", "Validated">>)
                  ELSE Validated(req.table, req.data, v[1], v[2], <<"Received", "Coerced">>)
    /\ pc' = "done"
    /\ UNCHANGED <<db, seq, nops, req, ses, lock, pend, master>>

NextValidate == CoerceInput \/ ValidateInput

SpecValidate == InitValidate /\ [][NextValidate]_vars

(***************************************************************************)
(* insert as one call, on one record, against the populated database.      *)
(***************************************************************************)
CallInsert ==
    /\ pc = "coerce"
    /\ \E o \in {insert(db, seq, req.table, req.data)} :
          /\ db' = o.db
          /\ seq' = o.seq
          /\ last' = Call("insert", req.table, req.data, <<"all">>, o)
    /\ \E c \in {convertDataTypes(req.table, req.data)} : req' = [req EXCEPT !.data = c.data]
    /\ pc' = "done"
    /\ nops' = nops + 1
    /\ UNCHANGED <<ses, lock, pend, master>>

NextInsert == CallInsert

SpecInsert == InitValidate /\ [][NextInsert]_vars

(***************************************************************************)
(* createTable: the calls are made on a new database file or on the        *)
(* populated database, with the definition of setupDatabase or another.    *)
(***************************************************************************)
MaxCreates == 2

OtherColumns == << Col("X", "TEXT", FALSE, "no") >>
ColumnChoices(t) ==
    {OtherColumns,
     IF t \in Tables THEN Schema[t] ELSE << Col("Name", "TEXT", FALSE, "no") >>}

InitCreate ==
    /\ \/ master = NoMaster /\ db = EmptyDb /\ seq = NoSeq
       \/ master = SetupMaster /\ db = Populated.db /\ seq = Populated.seq
    /\ last = [NoCall EXCEPT !.printed = << >>]
    /\ nops = 0
    /\ pc = << >>
    /\ req = [op |-> "none", table |-> "", columns |-> NoTable, replace |-> FALSE]
    /\ ses = << >>
    /\ lock = NoSession
    /\ pend = db

CreateTable ==
    /\ nops < MaxCreates
    /\ \E t \in CallTables : \E columns \in ColumnChoices(t) : \E replace \in BOOLEAN :
       \E o \in {createTable(master, db, seq, t, columns, replace)} :
          /\ master' = o.master
          /\ db' = o.db
          /\ seq' = o.seq
          /\ req' = [op |-> "createTable", table |-> t, columns |-> columns,
                     replace |-> replace]
          /\ last' = [NoCall EXCEPT !.op = "createTable", !.table = t, !.raised = o.raised,
                                    !.msg = o.msg, !.printed = o.printed, !.store = o.raised]
    /\ nops' = nops + 1
    /\ UNCHANGED <<pc, ses, lock, pend>>

NextCreate == CreateTable
SpecCreate == InitCreate /\ [][NextCreate]_vars

(***************************************************************************)
(* The web front end (src/frontend.py): its own validation and the routes  *)
(* that create, edit and delete rows.                                      *)
(***************************************************************************)
\* get_table_info: the column names, the first column that PRAGMA
\* table_info flags as part of the primary key ("" when there is none), and
\* fields = [h for h in headers if h != pk]
get_table_info(table) ==
    Only({ [headers |-> {info[i].name : i \in 1..Len(info)},
            pk |-> IF \E i \in 1..Len(info) : info[i].pk # "no"
                   THEN info[CHOOSE i \in 1..Len(info) :
                                /\ info[i].pk # "no"
                                /\ \A j \in 1..(i - 1) : info[j].pk = "no"].name
                   ELSE "",
            fields |-> {info[i].name : i \in 1..Len(info)}
                          \ {info[i].name : i \in {j \in 1..Len(info) :
                                /\ info[j].pk # "no"
                                /\ \A k \in 1..(j - 1) : info[k].pk = "no"}}]
           : info \in {TableInfo(table)} })

\* what a route answers and the store after it: the HTTP status, what is
\* shown ("form", "redirect", "json" or "error"), the error message, whether
\* validate accepted the data, and the error the store answered the statement with ("" when it ran or was never issued)
Reply(d, sq, status, view, error, valid, store) ==
    [db |-> d, seq |-> sq, status |-> status, view |-> view, error |-> error,
     valid |-> valid, store |-> store]

\* validate(table, data, db) of the front end: (False, message) or
\* (True, cleaned data); an exception of int() or float() is caught and its
\* text is the message.  db.exists is SELECT 1 FROM table WHERE col=? LIMIT 1.
validate(d, table, out) ==
    LET No(msg) == [ok |-> FALSE, res |-> [k \in {} |-> None], msg |-> msg]
        Yes(res) == [ok |-> TRUE, res |-> res, msg |-> ""]
        With(o, key, value) ==
            [k \in DOMAIN o \cup {key} |-> IF k = key THEN value ELSE o[k]]
        qty(key) == PyInt(GetD(out, key, IntV(0)))
        price == PyFloat(GetD(out, "Price", IntV(0)))
        dr == Get(out, "DateReceived")
        dc == Get(out, "DateCompleted")
    IN
    CASE table = "Suppliers" ->
            IF \/ ~Truthy(Get(out, "Name")) \/ ~Truthy(Get(out, "Contact"))
               \/ ~Truthy(Get(out, "Address"))
            THEN No("Name, Contact and Address required")
            ELSE Yes(out)
      [] table = "Parts" ->
            IF ~Truthy(Get(out, "Name")) THEN No("Part name required")
            ELSE IF Raised(qty("StockQTY")) THEN No(qty("StockQTY")[2])
            ELSE IF qty("StockQTY")[2] < 0 THEN No("StockQTY cannot be negative")
            ELSE Yes(With(out, "StockQTY", qty("StockQTY")))
      [] table = "Customers" ->
            IF \/ ~Truthy(Get(out, "FirstName")) \/ ~Truthy(Get(out, "LastName"))
               \/ ~Truthy(Get(out, "Address"))
            THEN No("First, Last name and Address required")
            ELSE IF Truthy(Get(out, "Email")) /\ ~IsText(Get(out, "Email"))
            THEN No("TypeError")
            ELSE IF Truthy(Get(out, "Email")) /\ Get(out, "Email")[2] \notin ContainsAt
            THEN No("Invalid email format")
            ELSE Yes(out)
      [] table = "RepairItems" ->
            IF Get(out, "RepairType") \notin {TextV("Car"), TextV("Computer")}
            THEN No("RepairType must be 'Car' or 'Computer'")
            ELSE IF Raised(PyInt(Get(out, "CustomerID")))
            THEN No(PyInt(Get(out, "CustomerID"))[2])
            ELSE IF ~StoreProbe(d, "Customers", "CustomerID", PyInt(Get(out, "CustomerID")))
            THEN No("CustomerID not found")
            ELSE Yes(out)
      [] table = "RepairJobs" ->
            IF Raised(PyInt(Get(out, "RepairItemID")))
            THEN No(PyInt(Get(out, "RepairItemID"))[2])
            ELSE IF ~StoreProbe(d, "RepairItems", "ItemID", PyInt(Get(out, "RepairItemID")))
            THEN No("RepairItemID not found")
            ELSE IF ~IsNone(Get(out, "Price")) /\ Raised(PyFloat(Get(out, "Price")))
            THEN No("Price must be numeric")
            ELSE IF ~IsNone(Get(out, "Price")) /\ PyFloat(Get(out, "Price"))[2] < 0
            THEN No("Price cannot be negative")
            ELSE IF Truthy(dr) /\ ~isValidDate(dr)
            THEN No("Invalid DateReceived format, use YYYY-MM-DD")
            ELSE IF Truthy(dr) /\ DayOf[dr[2]] > DayOf[CurrentDate]
            THEN No("DateReceived cannot be in the future")
            ELSE IF Truthy(dc) /\ ~isValidDate(dc)
            THEN No("Invalid DateCompleted format, use YYYY-MM-DD")
            ELSE IF Truthy(dc) /\ Truthy(dr) /\ DayOf[dc[2]] < DayOf[dr[2]]
            THEN No("DateCompleted cannot be before DateReceived")
            ELSE IF ~IsNone(Get(out, "Price"))
            THEN Yes(With(out, "Price", PyFloat(Get(out, "Price"))))
            ELSE Yes(out)
      [] table = "Products" ->
            IF ~Truthy(Get(out, "Name")) \/ ~Truthy(Get(out, "Category"))
            THEN No("Product Name and Category required")
            ELSE IF Get(out, "Category") \notin
                        {TextV("Laptop"), TextV("Desktop"), TextV("Other")}
            THEN No("Invalid Category")
            ELSE IF Raised(qty("Quantity")) THEN No(qty("Quantity")[2])
            ELSE IF Raised(price) THEN No(price[2])
            ELSE IF qty("Quantity")[2] < 0 \/ price[2] <= 0
            THEN No("Quantity >=0 and Price > 0")
            ELSE Yes(With(With(out, "Quantity", qty("Quantity")), "Price", price))
      [] OTHER -> Yes(out)

\* the answer of new_row and edit_row to what the store did with their
\* statement: a redirect when it ran, the form again on an integrity error;
\* any other error of the store is not caught
AfterStatement(d, sq, r) ==
    IF r.err = "" THEN Reply(r.db, r.seq, 303, "redirect", "", TRUE, "")
    ELSE IF r.err = "IntegrityError" THEN Reply(d, sq, 200, "form", r.detail, TRUE, r.err)
    ELSE Reply(d, sq, 500, "error", r.detail, TRUE, r.err)

\* new_row that issues its INSERT whatever validate answers
new_rowUnvalidated(d, sq, table, method, posted) ==
    IF method # "POST" THEN Reply(d, sq, 200, "form", "", TRUE, "")
    ELSE Only({ AfterStatement(d, sq, StoreInsert(d, sq, table,
                   IF v.ok THEN v.res
                   ELSE [f \in get_table_info(table).fields |-> Get(posted, f)]))
                : v \in {validate(d, table,
                            [f \in get_table_info(table).fields |-> Get(posted, f)])} })
\* new_row: /table/<table>/new, with
\* data = {f: request.forms.get(f) for f in fields}
new_row(d, sq, table, method, posted) ==
    IF method # "POST" THEN Reply(d, sq, 200, "form", "", TRUE, "")
    ELSE Only({ IF ~v.ok THEN Reply(d, sq, 200, "form", v.msg, FALSE, "")
                ELSE AfterStatement(d, sq, StoreInsert(d, sq, table, v.res))
                : v \in {validate(d, table,
                            [f \in get_table_info(table).fields |-> Get(posted, f)])} })

\* edit_row: /table/<table>/edit/<id>
edit_row(d, sq, table, id, method, posted) ==
    IF \A r \in d[table] : ~Matches(<<"eq", get_table_info(table).pk, id>>, r)
    THEN Reply(d, sq, 404, "error", "Not found", TRUE, "")
    ELSE IF method # "POST" THEN Reply(d, sq, 200, "form", "", TRUE, "")
    ELSE Only({ IF ~v.ok THEN Reply(d, sq, 200, "form", v.msg, FALSE, "")
                ELSE AfterStatement(d, sq,
                        StoreUpdate(d, sq, table, v.res,
                                    <<"eq", get_table_info(table).pk, id>>))
                : v \in {validate(d, table,
                            [f \in get_table_info(table).fields |-> Get(posted, f)])} })

\* delete_row: /table/<table>/delete/<id>
delete_row(d, sq, table, id) ==
    Only({ IF r.err = "" THEN Reply(r.db, r.seq, 303, "redirect", "", TRUE, "")
           ELSE IF r.err = "IntegrityError"
           THEN Reply(d, sq, 400, "error", "Cannot delete due to integrity constraints",
                      TRUE, r.err)
           ELSE Reply(d, sq, 500, "error", r.detail, TRUE, r.err)
           : r \in {StoreDelete(d, sq, table, <<"eq", get_table_info(table).pk, id>>)} })

\* api_edit: POST /api/<table>/<id>, with
\* data = {k: payload.get(k) for k in fields if k in payload}
api_edit(d, sq, table, id, payload) ==
    Only({ IF ~v.ok THEN Reply(d, sq, 400, "json", v.msg, FALSE, "")
           ELSE Only({ IF r.err = "" THEN Reply(r.db, r.seq, 200, "json", "", TRUE, "")
                       ELSE IF r.err = "IntegrityError"
                       THEN Reply(d, sq, 400, "json", r.detail, TRUE, r.err)
                       ELSE Reply(d, sq, 500, "error", r.detail, TRUE, r.err)
                       : r \in {StoreUpdate(d, sq, table, v.res,
                                            <<"eq", get_table_info(table).pk, id>>)} })
           : v \in {validate(d, table,
                       [k \in get_table_info(table).fields \cap DOMAIN payload |->
                           payload[k]])} })

\* number of requests a behaviour of the front end serves
MaxRequests == 1

\* the database file the front end opens, populated by the console:
\* populateDatabase gives repair item 1 the parts 1 and 2 (main.py 577-578)
WebStart ==
    insert(Populated.db, Populated.seq, "RepairItemParts",
           [ItemID |-> IntV(1), PartID |-> IntV(2), Quantity |-> IntV(1)])

\* the JSON payloads offered to api_edit: the inline editor's quantity or
\* price, one column set to another value, or a whole record
Payloads(t) ==
    UpdateInputs(t) \cup {BaseRecord[t]}
      \cup (CASE t = "Parts" -> {[k \in {"StockQTY"} |-> IntV(3)]}
              [] t = "Products" ->
                    {[k \in {"Quantity"} |-> IntV(9)], [k \in {"Price"} |-> RealV(9)]}
              [] t = "RepairItemParts" -> {[k \in {"Quantity"} |-> IntV(2)]}
              [] t = "PartSuppliers" -> {[k \in {"PurchasePrice"} |-> RealV(9)]}
              [] OTHER -> {})

InitWeb ==
    /\ db = WebStart.db
    /\ seq = WebStart.seq
    /\ last = NoCall
    /\ nops = 0
    /\ pc = << >>
    /\ req = << >>
    /\ ses = << >>
    /\ lock = NoSession
    /\ pend = EmptyDb
    /\ master = SetupMaster

\* a request is served: the store is as the route leaves it, and `last`
\* holds the request and the response.  Requests name the ids 1 and 9 (a
\* row that exists and one that does not); a GET posts no fields.
Serve(op, t, id, method, data, o) ==
    /\ db' = o.db
    /\ seq' = o.seq
    /\ last' = [op |-> op, table |-> t, id |-> id, method |-> method, data |-> data,
                status |-> o.status, view |-> o.view, error |-> o.error,
                valid |-> o.valid, store |-> o.store]
    /\ nops' = nops + 1
    /\ Idle

NewRow ==
    /\ nops < MaxRequests
    /\ \E t \in Tables : \E method \in {"GET", "POST"} :
       \E posted \in (IF method = "POST" THEN InsertInputs(t) ELSE {[k \in {} |-> None]}) :
          \E o \in {new_row(db, seq, t, method, posted)} :
             Serve("new_row", t, 0, method, posted, o)

EditRow ==
    /\ nops < MaxRequests
    /\ \E t \in Tables : \E id \in {1, 9} : \E method \in {"GET", "POST"} :
       \E posted \in (IF method = "POST" THEN InsertInputs(t) ELSE {[k \in {} |-> None]}) :
          \E o \in {edit_row(db, seq, t, id, method, posted)} :
             Serve("edit_row", t, id, method, posted, o)

DeleteRow ==
    /\ nops < MaxRequests
    /\ \E t \in Tables : \E id \in {1, 9} :
          \E o \in {delete_row(db, seq, t, id)} :
             Serve("delete_row", t, id, "GET", [k \in {} |-> None], o)

ApiEdit ==
    /\ nops < MaxRequests
    /\ \E t \in Tables : \E id \in {1, 9} : \E payload \in Payloads(t) :
          \E o \in {api_edit(db, seq, t, id, payload)} :
             Serve("api_edit", t, id, "POST", payload, o)

NextWeb == NewRow \/ EditRow \/ DeleteRow \/ ApiEdit

SpecWeb == InitWeb /\ [][NextWeb]_vars

(***************************************************************************)
(* The console (src/main.py, main): db, seq and master are the database    *)
(* file that the name austinDB.db leads to; ses is the state of the        *)
(* console process: its global isEmpty ("unbound" until an assignment      *)
(* runs), whether the connection that main opened at its start is still to *)
(* that file (attached), and otherwise the file it is to (own).            *)
(***************************************************************************)
\* number of menu choices a behaviour makes
MaxChoices == 3

\* main, line 901: db = DatabaseManager("austinDB.db") connects to the file
\* of an earlier run, or creates a file without tables
InitConsole ==
    /\ \/ master = NoMaster /\ db = EmptyDb /\ seq = NoSeq
       \/ master = SetupMaster /\ db = Populated.db /\ seq = Populated.seq
    /\ last = [op |-> "none", table |-> "", raised |-> "", printed |-> "",
               tables |-> {}, rows |-> {}]
    /\ nops = 0
    /\ pc = "menu"
    /\ req = << >>
    /\ ses = [isEmpty |-> "unbound", attached |-> TRUE,
              own |-> [master |-> NoMaster, db |-> EmptyDb, seq |-> NoSeq]]
    /\ lock = NoSession
    /\ pend = EmptyDb

\* the database that the connection of main reads
ConnStore ==
    IF ses.attached THEN [master |-> master, db |-> db, seq |-> seq] ELSE ses.own

\* choice 7, setupDatabase: isEmpty = True, the file is removed and a new
\* one is created with the twelve tables.  Where an open file can be
\* unlinked the connection of main stays with the removed file; where it
\* cannot, os.remove raises PermissionError, which nothing catches.
SetupOption ==
    /\ pc = "menu"
    /\ nops < MaxChoices
    /\ \/ /\ ses' = [isEmpty |-> "True", attached |-> FALSE, own |-> ConnStore]
          /\ master' = SetupMaster
          /\ db' = EmptyDb
          /\ seq' = NoSeq
          /\ pc' = "menu"
          /\ last' = [op |-> "setup", table |-> "", raised |-> "", printed |-> "",
                      tables |-> {}, rows |-> {}]
       \/ /\ ses' = [ses EXCEPT !.isEmpty = "True"]
          /\ pc' = "ended"
          /\ last' = [op |-> "setup", table |-> "", raised |-> "PermissionError",
                      printed |-> "", tables |-> {}, rows |-> {}]
          /\ UNCHANGED <<master, db, seq>>
    /\ nops' = nops + 1
    /\ UNCHANGED <<req, lock, pend>>

\* choice 8: `if isEmpty: populateDatabase()`, which connects to the file
\* named austinDB.db, sets isEmpty = False and inserts the seed rows;
\* reading isEmpty before any assignment raises NameError
PopulateOption ==
    /\ pc = "menu"
    /\ nops < MaxChoices
    /\ IF ses.isEmpty = "unbound"
       THEN /\ pc' = "ended"
            /\ last' = [op |-> "populate", table |-> "", raised |-> "NameError",
                        printed |-> "", tables |-> {}, rows |-> {}]
            /\ UNCHANGED <<db, seq, ses>>
       ELSE IF ses.isEmpty = "True"
       THEN /\ \E p \in {PopulateFrom(db, seq, 1)} : db' = p.db /\ seq' = p.seq
            /\ ses' = [ses EXCEPT !.isEmpty = "False"]
            /\ pc' = "menu"
            /\ last' = [op |-> "populate", table |-> "", raised |-> "",
                        printed |-> "Database populated with 10 dummy entries per table",
                        tables |-> {}, rows |-> {}]
       ELSE /\ pc' = "menu"
            /\ last' = [op |-> "populate", table |-> "", raised |-> "",
                        printed |-> "Database already populated.",
                        tables |-> {}, rows |-> {}]
            /\ UNCHANGED <<db, seq, ses>>
    /\ nops' = nops + 1
    /\ UNCHANGED <<req, lock, pend, master>>

\* choice 1: displayTables(db) lists the tables that the connection of main
\* finds, and displayRecords prints the rows of the chosen one; without
\* tables the choice can only be cancelled
ViewOption ==
    /\ pc = "menu"
    /\ nops < MaxChoices
    /\ \E s \in {ConnStore} : \E tables \in {{t \in Tables : tableExists(s.master, t)}} :
          IF tables = {}
          THEN last' = [op |-> "view", table |-> "", raised |-> "", printed |-> "",
                        tables |-> {}, rows |-> {}]
          ELSE \E t \in tables \cap {"Suppliers", "Sales"} :
                  last' = [op |-> "view", table |-> t, raised |-> "", printed |-> "",
                           tables |-> tables, rows |-> s.db[t]]
    /\ nops' = nops + 1
    /\ UNCHANGED <<db, seq, pc, req, ses, lock, pend, master>>

\* choice 2, addRecord: db.insert on the connection of main, every exception
\* printed as "Error inserting".  A connection whose file was removed reads
\* it but cannot write it: SQLite answers "attempt to write a readonly
\* database".
AddOption ==
    /\ pc = "menu"
    /\ nops < MaxChoices
    /\ \E s \in {ConnStore} : \E tables \in {{t \in Tables : tableExists(s.master, t)}} :
          IF tables = {}
          THEN /\ last' = [op |-> "add", table |-> "", raised |-> "", printed |-> "",
                           tables |-> {}, rows |-> {}]
               /\ UNCHANGED <<db, seq>>
          ELSE \E t \in tables \cap {"Suppliers", "Parts"} : \E data \in InsertInputs(t) :
               \E o \in {insert(s.db, s.seq, t, data)} :
                  IF o.raised = "" /\ ~ses.attached
                  THEN /\ last' = [op |-> "add", table |-> t, raised |-> "OperationalError",
                                   printed |-> "Error inserting", tables |-> tables,
                                   rows |-> {}]
                       /\ UNCHANGED <<db, seq>>
                  ELSE /\ last' = [op |-> "add", table |-> t, raised |-> o.raised,
                                   printed |-> IF o.raised = "" THEN o.printed
                                               ELSE "Error inserting",
                                   tables |-> tables, rows |-> {}]
                       /\ IF ses.attached THEN db' = o.db /\ seq' = o.seq
                          ELSE UNCHANGED <<db, seq>>
    /\ nops' = nops + 1
    /\ UNCHANGED <<pc, req, ses, lock, pend, master>>

NextConsole == SetupOption \/ PopulateOption \/ ViewOption \/ AddOption

SpecConsole == InitConsole /\ [][NextConsole]_vars

(***************************************************************************)
(* Properties.                                                             *)
(***************************************************************************)
FailedBeforeStore(c) ==
    /\ c.op = "insert"
    /\ c.raised # ""
    /\ c.stages \in {<<"Received">>, <<"Received", "Coerced">>}

\* C1: an insert that fails during type coercion or during rule validation
\* has executed no INSERT statement: every table (and the AUTOINCREMENT
\* bookkeeping) is exactly what it was before the call.
C1_FailedInsertLeavesStore ==
    [][FailedBeforeStore(last') /\ nops' = nops + 1 => db' = db /\ seq' = seq]_vars

\* C1 witness: on the populated database an insert failed in validation and
\* another state records one that failed in coercion
C1_Witness ==
    /\ FailedBeforeStore(last)
    /\ last.stages = <<"Received", "Coerced">>
    /\ last.raised = "ValueError"
    /\ db = Populated.db

\* a stored row as the mapping of its columns that hold a value
RowRecord(r) == [c \in {k \in DOMAIN r : ~IsNone(r[k])} |-> r[c]]

\* the record `row` would become under `updates` breaks the rules that
\* insert applies to table t: its coercion or its validation raises
BreaksRules(d, t, row, updates) ==
    \E c \in {convertDataTypes(t, [k \in DOMAIN RowRecord(row) \cup DOMAIN updates |->
                                      IF k \in DOMAIN updates THEN updates[k] ELSE row[k]])} :
        c.err # "" \/ validateData(d, t, c.data) # Pass

UpdateBreaksRules(d, t, updates, cond) ==
    /\ t \in Tables
    /\ CondOk(t, cond)
    /\ \E row \in d[t] : Matches(cond, row) /\ BreaksRules(d, t, row, updates)

\* C2: updateRecord applies the rules of insert before its UPDATE statement:
\* an update that would give a matching row values that break the rules of
\* its table is rejected and leaves every table as it was.
C2_UpdateValidated ==
    [][(/\ nops' = nops + 1
        /\ last'.op = "update"
        /\ UpdateBreaksRules(db, last'.table, last'.data, last'.cond))
       => (db' = db /\ last'.printed # "Record(s) updated")]_vars

\* C3: after any sequence of insert, updateRecord and deleteRecord calls on
\* a database made by setupDatabase, every stored row passes the rules that
\* validateData has for its table.
C3_RowsSatisfyRules ==
    \A t \in Tables : \A r \in db[t] : validateData(db, t, RowRecord(r)) = Pass

\* C4: in one session, after any sequence of insert, updateRecord and
\* deleteRecord calls, every foreign-key value of every row names an existing
\* parent row.
C4_NoOrphans == FkHolds(db)

\* an update or a delete that the store refused for a foreign key, on the
\* populated database
C4_Witness ==
    /\ last.op \in {"update", "delete"}
    /\ last.store = "IntegrityError"
    /\ last.msg = "FOREIGN KEY constraint failed"
    /\ db = Populated.db
    /\ FkHolds(db)

AllDone == \A s \in Sessions : pc[s] = "done"

\* session s inserts a row that references a row the deleting session removed
RefersToGone(s) ==
    \E f \in ForeignKeys[req[s].table] : \E g \in ses[Deleter].gone :
        /\ f.ptable = req[Deleter].table
        /\ SqlEq(Get(ses[s].data, f.col), g[f.pcol])

\* C5: for every interleaving of two sessions inserting junction rows and a
\* third deleting a parent, once all calls have ended no row references a
\* missing parent, and an insert that references a parent whose delete
\* committed has not succeeded.
C5_NoOrphanAfterRace ==
    AllDone =>
        /\ FkHolds(db)
        /\ \A s \in Inserters :
              (ses[Deleter].committed /\ RefersToGone(s)) => ~ses[s].committed

\* both inserts passed their existence checks, the delete of their parent
\* then committed, and the store refused an INSERT for its foreign key
C5_Witness ==
    /\ AllDone
    /\ ses[Deleter].committed
    /\ \A s \in Inserters : ses[s].validated /\ RefersToGone(s) /\ ~ses[s].committed
    /\ \E s \in Inserters :
          /\ Deleter \in ses[s].after
          /\ ses[s].raised = "IntegrityError"
          /\ ses[s].msg = "FOREIGN KEY constraint failed"

OtherInserter(s) == CHOOSE u \in Inserters : u # s

\* the two inserting sessions offer the same composite key of the same
\* junction table
SameKey ==
    /\ req["A"].table = req["B"].table
    /\ \A c \in PkCols(req["A"].table) : Get(ses["A"].data, c) = Get(ses["B"].data, c)

\* C6: two sessions insert a junction row with the same composite key and
\* both pass validation: at most one insert commits, the other ends with an
\* error from the store (the UNIQUE violation, unless a third session keeps
\* the database locked), and no junction table ever holds a key twice.
C6_OneOfSameKey ==
    /\ \A t \in JunctionTables : PkUnique(t, db[t]) /\ PkUnique(t, pend[t])
    /\ (/\ \A s \in Inserters : pc[s] = "done" /\ ses[s].validated
        /\ SameKey)
       => /\ ~(\A s \in Inserters : ses[s].committed)
          /\ \A s \in Inserters :
                ses[s].committed =>
                    /\ ses[OtherInserter(s)].raised # ""
                    /\ ses[OtherInserter(s)].store # ""
                    /\ lock # Deleter =>
                          /\ ses[OtherInserter(s)].raised = "IntegrityError"
                          /\ ses[OtherInserter(s)].msg = "UNIQUE constraint failed"

\* both inserts were validated before either INSERT ran; one committed and
\* the other was refused for the key
C6_Witness ==
    /\ \A s \in Inserters : pc[s] = "done" /\ ses[s].validated
    /\ SameKey
    /\ pc[Deleter] = "start"
    /\ \E s \in Inserters :
          /\ ses[s].committed
          /\ ses[s].after = {}
          /\ ses[OtherInserter(s)].after = {s}
          /\ ses[OtherInserter(s)].msg = "UNIQUE constraint failed"

\* C7: when the store rejects the statement of insert, updateRecord or
\* deleteRecord, the caller receives an error: the call does not return as
\* a successful call does.
C7_StoreRejectionRaised == last.store # "" => last.raised # ""

\* the condition of a delete matches a row that a row of another table
\* references
HasDependents(d, t, cond) ==
    /\ t \in Tables
    /\ CondOk(t, cond)
    /\ \E r \in Referenced(d, t) : Matches(cond, r)

\* C8: deleteRecord on rows of which some still have dependent rows is
\* refused (the store answers with the foreign-key error and the method
\* reports that the record cannot be deleted) and deletes nothing: every
\* table is unchanged, also when only some matching rows have dependents.
C8_RefusedDeleteDeletesNothing ==
    [][(/\ nops' = nops + 1
        /\ last'.op = "delete"
        /\ HasDependents(db, last'.table, last'.cond))
       => /\ db' = db
          /\ seq' = seq
          /\ last'.store = "IntegrityError"
          /\ last'.printed = "Cannot delete record due to foreign key constraints"]_vars

\* DELETE FROM Parts WHERE 1=1 on the populated database: part 1 has
\* dependents, part 2 has none, and both are still there
C8_Witness ==
    /\ last.op = "delete"
    /\ last.table = "Parts"
    /\ last.cond = <<"all">>
    /\ last.printed = "Cannot delete record due to foreign key constraints"
    /\ Referenced(db, "Parts") # {}
    /\ db["Parts"] \ Referenced(db, "Parts") # {}
    /\ db = Populated.db

Stages == <<"Received", "Coerced", "Validated", "Applied", "Committed">>
IsPrefixOfStages(q) == Len(q) <= Len(Stages) /\ \A i \in 1..Len(q) : q[i] = Stages[i]

\* C9: an insert passes through Received, Coerced, Validated, Applied,
\* Committed in that order, and the kind of error it fails with is decided
\* by the last stage it reached: a failure at another stage (of any insert
\* on the populated database) has another kind.
C9_StageDecidesKind ==
    last.op = "insert" =>
        /\ IsPrefixOfStages(last.stages)
        /\ last.raised = "" <=> last.stages = Stages
        /\ last.raised # "" =>
              \A t \in Tables : \A data \in InsertInputs(t) :
                  \A o \in {insert(Populated.db, Populated.seq, t, data)} :
                      (o.raised # "" /\ o.stages # last.stages) => o.raised # last.raised

\* the class (1 required-field presence, 2 format and enumeration, 3 numeric
\* range, 4 foreign-key existence, 5 cross-field) of each check of
\* RuleChecks, in the order of the checks
CheckClass ==
    [ Suppliers |-> <<1>>,
      Parts |-> <<1, 3>>,
      PartSuppliers |-> <<3, 4, 4>>,
      Customers |-> <<1, 2>>,
      RepairItems |-> <<2, 4, 1>>,
      CarDetails |-> <<4, 1, 3, 3>>,
      ComputerDetails |-> <<4, 1, 3, 3>>,
      RepairJobs |-> <<4, 3, 2, 2, 5, 2>>,
      RepairItemParts |-> <<3, 4, 4>>,
      Products |-> <<1, 2, 3>>,
      Sales |-> <<4, 3, 2>>,
      SoldItems |-> <<4, 4, 3, 3>> ]

\* the tables whose checks are written in the order of their classes
ClassOrderedTables == {"Suppliers", "Parts", "PartSuppliers", "Customers", "RepairItemParts"}

\* the validation of the record has ended, with a failure
ValidationEnded == pc = "done" /\ last.op = "validate" /\ Len(last.stages) >= 2
ValidationRaised == ValidationEnded /\ last.raised # ""

\* every check of the table on the validated record, the checks that fail
\* on it, and the failing checks that the reported error is that of
ChecksOfLast == RuleChecks(db, last.table, last.data)
Failing == {j \in 1..Len(ChecksOfLast) : ChecksOfLast[j] # Pass}
ReportedAt == {j \in Failing : ChecksOfLast[j] = <<last.raised, last.msg>>}

ReportsEarliestClass ==
    \E j \in ReportedAt :
        \A k \in Failing : CheckClass[last.table][j] <= CheckClass[last.table][k]

\* C10 as stated: for every table the error that validateData reports for
\* a record is that of the earliest class, in the order 1 to 5, among the
\* classes of rules the record violates.
C10_EarliestClassReported == ValidationRaised => ReportsEarliestClass

\* C10 amended: validateData runs the checks of a table in the order they
\* are written and stops at the first that fails, so the reported error is
\* that of the first failing check in that order and there is none when no
\* check fails; the order is that of the classes 1 to 5 for Suppliers,
\* Parts, PartSuppliers, Customers and RepairItemParts.
C10_FirstFailingCheckReported ==
    ValidationEnded =>
        /\ last.raised = "" <=> Failing = {}
        /\ last.raised # "" =>
              /\ \E j \in ReportedAt : \A k \in Failing : j <= k
              /\ last.table \in ClassOrderedTables => ReportsEarliestClass

\* a record with an empty Name and a negative StockQTY, or another record of
\* a class-ordered table that fails checks of two classes
C10_Witness ==
    /\ ValidationRaised
    /\ last.table \in ClassOrderedTables
    /\ \E j, k \in Failing : CheckClass[last.table][j] < CheckClass[last.table][k]
    /\ ReportsEarliestClass

\* C11: for every table and record, also one in which a range-checked or a
\* date field is present with a null value, validateData accepts the record
\* or fails with the validation error (ValueError with its reason); it
\* never ends with another kind of error.
C11_OnlyValidationErrors ==
    ValidationEnded => last.raised \in {"", "ValueError"}

\* the fields a row of table t must have: its NOT NULL columns
RequiredFields(t) == {c \in ColNames(t) : ColDef(t, c).notnull}

\* the record lacks a required field of table t, or holds it empty
LacksRequired(t, data) ==
    \E c \in RequiredFields(t) : Get(data, c) \in {None, TextV("")}

\* C12: in each of the twelve tables, an insert of a record that lacks (or
\* holds empty) a required field of the table fails with the validation
\* error, and the table has as many rows after the call as before.
C12_MissingRequiredRejected ==
    [][(/\ pc = "coerce"
        /\ pc' = "done"
        /\ last'.op = "insert"
        /\ last'.table \in Tables
        /\ last'.stages # <<"Received">>
        /\ LacksRequired(last'.table, last'.data))
       => /\ last'.raised = "ValueError"
          /\ last'.stages = <<"Received", "Coerced">>
          /\ Cardinality(db'[last'.table]) = Cardinality(db[last'.table])]_vars

\* the insert of the record has ended, and what convertDataTypes made of
\* the record
InsertEnded(t) == pc = "done" /\ last.op = "insert" /\ last.table = t
CoercedLast == convertDataTypes(last.table, last.data)

\* a PartSuppliers record that was coerced: its price and whether its
\* references and its key pair are in the database the insert ran on
PsCoerced ==
    /\ InsertEnded("PartSuppliers")
    /\ DOMAIN last.data \subseteq ColNames("PartSuppliers")
    /\ CoercedLast.err = ""
PsPrice == GetD(CoercedLast.data, "PurchasePrice", IntV(0))
PsPartExists == \E r \in Populated.db["Parts"] : r.PartID = Get(CoercedLast.data, "PartID")
PsSupplierExists ==
    \E r \in Populated.db["Suppliers"] : r.SupplierID = Get(CoercedLast.data, "SupplierID")
PsKeyPresent ==
    \E r \in Populated.db["PartSuppliers"] :
        /\ r.PartID = Get(CoercedLast.data, "PartID")
        /\ r.SupplierID = Get(CoercedLast.data, "SupplierID")
PsFailsWith(msg) ==
    /\ last.raised = "ValueError"
    /\ last.msg = msg
    /\ db = Populated.db
PsSucceeds ==
    /\ last.raised = ""
    /\ \E r \in db["PartSuppliers"] \ Populated.db["PartSuppliers"] :
          /\ r.PartID = CoercedLast.data.PartID
          /\ r.SupplierID = CoercedLast.data.SupplierID
          /\ r.PurchasePrice = PsPrice

\* C13 as stated: the insert of a PartSuppliers row fails with the
\* foreign-key error when PartID or SupplierID references no row, with the
\* price error when both references exist and the price is not above 0, and
\* succeeds when both exist, the price is above 0 and the pair is new.
C13_PartSupplierOutcomes ==
    PsCoerced =>
        /\ (~PsPartExists \/ ~PsSupplierExists) =>
              \/ PsFailsWith("PartID does not exist")
              \/ PsFailsWith("SupplierID does not exist")
        /\ (PsPartExists /\ PsSupplierExists /\ IsNum(PsPrice) /\ PsPrice[2] <= 0) =>
              PsFailsWith("PurchasePrice must be > 0")
        /\ (PsPartExists /\ PsSupplierExists /\ IsNum(PsPrice) /\ PsPrice[2] > 0
              /\ ~PsKeyPresent) => PsSucceeds

\* C13 amended: the price is checked first.  A price that is absent or a
\* number not above 0 gives the price error whatever the references are; a
\* price above 0 with a missing PartID gives 'PartID does not exist', with
\* an existing PartID and a missing SupplierID gives 'SupplierID does not
\* exist'; with both references and a new key pair the insert succeeds.
C13_PriceCheckedFirst ==
    PsCoerced =>
        /\ (IsNum(PsPrice) /\ PsPrice[2] <= 0) => PsFailsWith("PurchasePrice must be > 0")
        /\ (IsNum(PsPrice) /\ PsPrice[2] > 0 /\ ~PsPartExists) =>
              PsFailsWith("PartID does not exist")
        /\ (IsNum(PsPrice) /\ PsPrice[2] > 0 /\ PsPartExists /\ ~PsSupplierExists) =>
              PsFailsWith("SupplierID does not exist")
        /\ (IsNum(PsPrice) /\ PsPrice[2] > 0 /\ PsPartExists /\ PsSupplierExists
              /\ ~PsKeyPresent) => PsSucceeds

\* a record whose PartID references no part and whose price is 0
C13_Witness ==
    /\ PsCoerced
    /\ ~PsPartExists
    /\ PsPrice = RealV(0)
    /\ PsFailsWith("PurchasePrice must be > 0")

\* a validated RepairJobs record whose two dates are present and pass the
\* format check, and on which no check other than the date order fails
DateOrderMsg == "DateCompleted cannot be before DateReceived"
BothDatesValid ==
    /\ ValidationEnded
    /\ last.table = "RepairJobs"
    /\ Truthy(Get(last.data, "DateReceived")) /\ isValidDate(Get(last.data, "DateReceived"))
    /\ Truthy(Get(last.data, "DateCompleted")) /\ isValidDate(Get(last.data, "DateCompleted"))
    /\ \A j \in Failing : ChecksOfLast[j] = ValErr(DateOrderMsg)
CompletedBeforeReceived ==
    DayOf[Get(last.data, "DateCompleted")[2]] < DayOf[Get(last.data, "DateReceived")[2]]

\* C14 as stated: a RepairJobs record with both dates present and well
\* formed is rejected with the date-ordering error exactly when the
\* completion day is earlier in the calendar than the receipt day.
C14_DateOrderChronological ==
    BothDatesValid =>
        ((last.raised = "ValueError" /\ last.msg = DateOrderMsg) <=> CompletedBeforeReceived)

\* an ended insert of a RepairItems record: its repair type, and whether
\* the customer it names is in the database the insert ran on
RepairTypes == {TextV("Car"), TextV("Computer")}
RiCustomerExists ==
    \E r \in Populated.db["Customers"] : r.CustomerID = Get(CoercedLast.data, "CustomerID")
RiKeyFree ==
    \/ "ItemID" \notin DOMAIN last.data
    \/ \A r \in Populated.db["RepairItems"] : r.ItemID # Get(CoercedLast.data, "ItemID")
RiInserted ==
    /\ last.raised = ""
    /\ \E r \in db["RepairItems"] \ Populated.db["RepairItems"] :
          /\ r.RepairType = last.data.RepairType
          /\ r.CustomerID = CoercedLast.data.CustomerID
          /\ r.Name = last.data.Name

\* C15: an insert into RepairItems whose RepairType is not exactly 'Car' or
\* 'Computer' fails with "RepairType must be 'Car' or 'Computer'" and stores
\* nothing, whatever the other fields hold; an insert whose RepairType is
\* one of the two, whose CustomerID names an existing customer and whose
\* Name is not empty adds the row (the record names only columns of the
\* table and no ItemID that is in use).
C15_RepairTypeEnumerated ==
    InsertEnded("RepairItems") =>
        /\ Get(last.data, "RepairType") \notin RepairTypes =>
              /\ last.raised = "ValueError"
              /\ CoercedLast.err = "" => last.msg = "RepairType must be 'Car' or 'Computer'"
              /\ db = Populated.db
        /\ (/\ Get(last.data, "RepairType") \in RepairTypes
            /\ CoercedLast.err = ""
            /\ DOMAIN last.data \subseteq ColNames("RepairItems")
            /\ RiCustomerExists
            /\ Truthy(Get(last.data, "Name"))
            /\ RiKeyFree) => RiInserted

\* a record with RepairType 'Boat' that names no customer either is
\* rejected for its repair type
C15_Witness ==
    /\ InsertEnded("RepairItems")
    /\ Get(last.data, "RepairType") = TextV("Boat")
    /\ ~RiCustomerExists
    /\ last.msg = "RepairType must be 'Car' or 'Computer'"
    /\ db = Populated.db

\* C16: a createTable call with replace = False for a table that exists
\* leaves the catalog, the rows and sqlite_sequence as they are, raises
\* nothing and reports that the table already exists; and after any call
\* with replace = False the table exists, so that making the call again
\* leaves the store as the first call left it.
C16_CreateExistingKeepsTable ==
    [][(nops' = nops + 1 /\ ~req'.replace) =>
          /\ tableExists(master, req'.table) =>
                /\ master' = master /\ db' = db /\ seq' = seq
                /\ last'.raised = ""
                /\ last'.printed = << "Table '" \o req'.table \o "' already exists" >>
          /\ last'.raised = ""
          /\ tableExists(master', req'.table)
          /\ \E again \in {createTable(master', db', seq', req'.table, req'.columns, FALSE)} :
                again.master = master' /\ again.db = db' /\ again.seq = seq'
                   /\ again.raised = ""]_vars

\* a call with replace = False and another definition for a table that
\* exists and holds rows
C16_Witness ==
    /\ last.op = "createTable"
    /\ ~req.replace
    /\ last.printed = << "Table '" \o req.table \o "' already exists" >>
    /\ req.columns # master[req.table]
    /\ req.table \in Tables
    /\ db[req.table] # {}

\* an insert that succeeded, and the rows it added
InsertSucceeded ==
    pc = "done" /\ last.op = "insert" /\ last.raised = "" /\ last.table \in Tables
AddedRows == db[last.table] \ Populated.db[last.table]
TypeOfColumn(c) == ColDef(last.table, c).type

\* C17: after a successful insert the table holds one more row, and that
\* row holds for each column of the record the value that convertDataTypes
\* made of it: an integer for an INTEGER column and a real for a REAL
\* column unless the value is null, so that the text '5' supplied for an
\* INTEGER column is read back as the integer 5.
C17_RoundTripCoerced ==
    InsertSucceeded =>
        /\ Cardinality(AddedRows) = 1
        /\ CoercedLast.err = ""
        /\ \A r \in AddedRows : \A c \in DOMAIN last.data :
              /\ r[c] = CoercedLast.data[c]
              /\ (TypeOfColumn(c) = "INTEGER" /\ ~IsNone(last.data[c])) => IsInt(r[c])
              /\ (TypeOfColumn(c) = "REAL" /\ ~IsNone(last.data[c])) => IsReal(r[c])
              /\ (TypeOfColumn(c) = "INTEGER" /\ IsText(last.data[c])) =>
                    r[c] = IntV(IntOf[last.data[c][2]])

\* Parts inserted with StockQTY given as the text '5'
C17_Witness ==
    /\ InsertSucceeded
    /\ last.table = "Parts"
    /\ Get(last.data, "StockQTY") = TextV("5")
    /\ \E r \in AddedRows : r.StockQTY = IntV(5)

\* the foreign-key fields that the validated record leaves out or gives as
\* null, the message of the check on such a field, and the first check of
\* the table that is on such a field
OmittedFks == {f \in ForeignKeys[last.table] : IsNone(Get(last.data, f.col))}
NotFoundMsg(f) ==
    IF last.table \in {"CarDetails", "ComputerDetails"}
    THEN f.col \o " does not exist in " \o f.ptable
    ELSE f.col \o " does not exist"
OmittedChecks ==
    {j \in 1..Len(ChecksOfLast) : \E f \in OmittedFks : ChecksOfLast[j] = ValErr(NotFoundMsg(f))}
FirstOmittedCheck == CHOOSE j \in OmittedChecks : \A k \in OmittedChecks : j <= k

\* C18 as stated: a record that omits a foreign-key field is rejected by
\* validateData with the 'does not exist' error of such a field.
C18_OmittedKeyReported ==
    (ValidationEnded /\ last.table \in Tables /\ OmittedFks # {}) =>
        /\ last.raised = "ValueError"
        /\ \E f \in OmittedFks : last.msg = NotFoundMsg(f)

\* C18 amended: for every reference of a validated record, foreignKeyExists
\* is true exactly when a row of the referenced table holds the value, and
\* false for a null or absent value; a record that omits a foreign-key
\* field is rejected, the check on that field fails, and its 'does not
\* exist' error is the one reported unless an earlier check of the table
\* fails first.
C18_NullKeyNotFound ==
    (ValidationEnded /\ last.table \in Tables) =>
        /\ \A f \in ForeignKeys[last.table] :
              /\ foreignKeyExists(db, f.ptable, f.pcol, Get(last.data, f.col))
                    <=> \E r \in db[f.ptable] : r[f.pcol] = Get(last.data, f.col)
              /\ IsNone(Get(last.data, f.col))
                    => ~foreignKeyExists(db, f.ptable, f.pcol, Get(last.data, f.col))
        /\ OmittedFks # {} =>
              /\ last.raised # ""
              /\ \A f \in OmittedFks : \E j \in Failing : ChecksOfLast[j] = ValErr(NotFoundMsg(f))
              /\ (\A k \in 1..(FirstOmittedCheck - 1) : ChecksOfLast[k] = Pass) =>
                    /\ last.raised = "ValueError"
                    /\ last.msg = ChecksOfLast[FirstOmittedCheck][2]

\* RepairItems validated without CustomerID
C18_Witness ==
    /\ ValidationEnded
    /\ last.table = "RepairItems"
    /\ "CustomerID" \notin DOMAIN last.data
    /\ Get(last.data, "RepairType") = TextV("Car")
    /\ last.raised = "ValueError"
    /\ last.msg = "CustomerID does not exist"

\* C19 as stated: an insert that names a table the store does not have
\* fails at the schema lookup of coercion: the call ends with an error
\* before validation has run and without an INSERT statement being issued.
C19_UnknownTableFailsAtCoercion ==
    (pc = "done" /\ last.op = "insert" /\ Resolve(last.table) \notin Tables) =>
        /\ last.raised # ""
        /\ last.stages = <<"Received">>
        /\ last.store = ""

\* the columns that PRAGMA table_info lists for the table of the request,
\* the declared type of one of them, and the entries of a record that
\* convertDataTypes cannot parse
InfoColumns == {TableInfo(req.table)[i].name : i \in 1..Len(TableInfo(req.table))}
InfoType(c) == (CHOOSE d \in {TableInfo(req.table)[i] : i \in 1..Len(TableInfo(req.table))} :
                    d.name = c).type
Unparseable(data) ==
    {c \in DOMAIN data \cap InfoColumns :
        \/ InfoType(c) = "INTEGER" /\ IsText(data[c]) /\ data[c][2] \notin DOMAIN IntOf
        \/ InfoType(c) = "REAL" /\ IsText(data[c]) /\ data[c][2] \notin DOMAIN RealOf}
ConvertedAs(type, old, new) ==
    CASE type = "INTEGER" ->
            /\ IsInt(new)
            /\ new[2] = IF IsText(old) THEN IntOf[old[2]] ELSE old[2]
      [] type = "REAL" ->
            /\ IsReal(new)
            /\ new[2] = IF IsText(old) THEN RealOf[old[2]] ELSE old[2]
      [] OTHER ->
            /\ IsText(new)
            /\ IsText(old) => new = old

\* C20: convertDataTypes returns a record with the keys of the record it
\* was given; the entries whose key names a column and whose value is not
\* null are converted to an integer for INTEGER columns, to a real for REAL
\* columns and to text otherwise; null values and keys that name no column
\* stay as they are.  It raises ValueError '<column> must be of type <TYPE>'
\* exactly when an INTEGER or REAL value cannot be parsed.
C20_ConvertsColumnsOnly ==
    [][pc = "coerce" =>
          /\ (pc' = "validate") <=> (Unparseable(req.data) = {})
          /\ pc' = "validate" =>
                /\ DOMAIN req'.data = DOMAIN req.data
                /\ \A k \in DOMAIN req.data :
                      IF k \in InfoColumns /\ ~IsNone(req.data[k])
                      THEN ConvertedAs(InfoType(k), req.data[k], req'.data[k])
                      ELSE req'.data[k] = req.data[k]
          /\ pc' # "validate" =>
                /\ last'.raised = "ValueError"
                /\ \E c \in Unparseable(req.data) :
                      last'.msg = c \o " must be of type " \o InfoType(c)]_vars

\* a record with a key that names no column has been converted: the text
\* under that key is kept and the text of an INTEGER column is an integer
C20_Witness ==
    /\ pc = "validate"
    /\ req.table \in Tables
    /\ UnknownKey \in DOMAIN req.data
    /\ req.data[UnknownKey] = TextV("5")
    /\ \E k \in DOMAIN req.data \cap InfoColumns : InfoType(k) = "INTEGER" /\ IsInt(req.data[k])

\* C21 as stated: type coercion leaves the mapping that the caller passed
\* unchanged, when it succeeds and when it fails part-way.
C21_CallerMappingUnchanged ==
    [][pc = "coerce" => req'.data = req.data]_vars

\* the CarDetails rows and the ComputerDetails rows of a repair item
CarDetailsOf(item) == {r \in db["CarDetails"] : r.ItemID = item.ItemID}
ComputerDetailsOf(item) == {r \in db["ComputerDetails"] : r.ItemID = item.ItemID}

\* C22 as stated: after successful inserts each RepairItems row has at most
\* one CarDetails row and at most one ComputerDetails row, and never both.
C22_DetailsDisjoint ==
    \A item \in db["RepairItems"] :
        /\ Cardinality(CarDetailsOf(item)) <= 1
        /\ Cardinality(ComputerDetailsOf(item)) <= 1
        /\ CarDetailsOf(item) = {} \/ ComputerDetailsOf(item) = {}

\* the numeric fields whose range check reads data.get(field, 0)
DefaultedFields(t) ==
    CASE t = "Parts" -> {"StockQTY"}
      [] t = "PartSuppliers" -> {"PurchasePrice"}
      [] t = "RepairItemParts" -> {"Quantity"}
      [] t = "Products" -> {"Price", "Quantity"}
      [] t = "SoldItems" -> {"Quantity", "UnitPrice"}
      [] OTHER -> {}

\* C23 as stated: validateData accepts no record in which a range-checked
\* numeric field is missing and the check was made on a value put in its
\* place.
C23_NoDefaultAccepted ==
    (ValidationEnded /\ last.raised = "") =>
        \A c \in DefaultedFields(last.table) : c \in DOMAIN last.data

\* C27 as stated: every row that insert adds has passed the validateData
\* rules of the table it is added to, whatever the letter case in which the
\* caller spells the table name.
C27_AddedRowsPassedRules ==
    (pc = "done" /\ last.op = "insert" /\ last.raised = "" /\ Resolve(last.table) \in Tables) =>
        \A j \in DOMAIN RuleChecks(Populated.db, Resolve(last.table), CoercedLast.data) :
            RuleChecks(Populated.db, Resolve(last.table), CoercedLast.data)[j] = Pass

\* C24 as stated: on every record of every table the front end's validate
\* accepts exactly when DatabaseManager.validateData accepts.
C24_SameRulesAsValidateData ==
    (ValidationEnded /\ last.table \in Tables) =>
        ((last.raised = "") <=> validate(db, last.table, last.data).ok)

\* WHERE pk=? with the id of a request, and the rows it selects
ById(table, id) == <<"eq", get_table_info(table).pk, id>>
RowsById(d, table, id) == {r \in d[table] : Matches(ById(table, id), r)}

\* an inline edit of the quantity or price of a Parts or Products row that
\* exists has been served
InlineEditServed ==
    /\ last.op = "api_edit"
    /\ last.table \in {"Parts", "Products"}
    /\ DOMAIN last.data \in {{"StockQTY"}, {"Quantity"}, {"Price"}}
    /\ \A k \in DOMAIN last.data : IsNum(last.data[k]) /\ last.data[k][2] > 0
    /\ RowsById(WebStart.db, last.table, last.id) # {}

\* C25 as stated: an inline edit whose payload holds only a valid quantity
\* or price of an existing Parts or Products row answers ok and the row
\* holds the new value.
C25_InlineEditUpdatesField ==
    InlineEditServed =>
        /\ last.status = 200
        /\ \A r \in RowsById(db, last.table, last.id) :
              \A k \in DOMAIN last.data : SqlEq(r[k], last.data[k])

\* the rows of the table of the request served by this step that the step
\* removed or replaced
RowsTouched == db[last'.table] \ db'[last'.table]

\* C28 as stated: a delete or edit request for a table and an id removes or
\* changes at most one row, for every table, junction tables included.
C28_AtMostOneRowAffected ==
    [][(nops' = nops + 1 /\ last'.op \in {"delete_row", "edit_row"}) =>
          Cardinality(RowsTouched) <= 1]_vars

\* the form posted by the request of this step fails validation, or passes
\* it and the store refuses the statement with an integrity error
FormOfStep == [f \in get_table_info(last'.table).fields |-> Get(last'.data, f)]
FormFailsValidation == ~validate(db, last'.table, FormOfStep).ok
StoreRefusesForm ==
    \E v \in {validate(db, last'.table, FormOfStep)} :
        /\ v.ok
        /\ IF last'.op = "new_row"
           THEN StoreInsert(db, seq, last'.table, v.res).err = "IntegrityError"
           ELSE StoreUpdate(db, seq, last'.table, v.res,
                            ById(last'.table, last'.id)).err = "IntegrityError"
FormPosted ==
    /\ nops' = nops + 1
    /\ last'.op \in {"new_row", "edit_row"}
    /\ last'.method = "POST"
    /\ last'.op = "edit_row" => RowsById(db, last'.table, last'.id) # {}
DeleteRefused ==
    /\ nops' = nops + 1
    /\ last'.op = "delete_row"
    /\ StoreDelete(db, seq, last'.table, ById(last'.table, last'.id)).err = "IntegrityError"

\* C30: a create or edit form that fails validation, or whose statement the
\* store refuses with an integrity error, leaves every table as it was and
\* is answered with the form and the error message; a delete that the store
\* refuses for integrity reasons is answered with HTTP 400 and removes
\* nothing.
C30_FailedRequestsChangeNothing ==
    [][/\ (FormPosted /\ (FormFailsValidation \/ StoreRefusesForm)) =>
              /\ db' = db
              /\ seq' = seq
              /\ last'.view = "form"
              /\ last'.error # ""
       /\ DeleteRefused =>
              /\ db' = db
              /\ last'.status = 400
              /\ RowsById(db', last'.table, last'.id) # {}]_vars

\* a repair item without a name passed the front end's validation, the
\* store refused the INSERT on its CHECK constraint, and the form came back
\* with that error on an unchanged database
C30_Witness ==
    /\ last.op = "new_row"
    /\ last.table = "RepairItems"
    /\ last.method = "POST"
    /\ last.valid
    /\ last.store = "IntegrityError"
    /\ last.view = "form"
    /\ last.error = "CHECK constraint failed"
    /\ db = WebStart.db

\* this step serves the Populate Database option
PopulateChosen == pc = "menu" /\ nops' = nops + 1 /\ last'.op = "populate"

\* Setup Database has been run in this process and nothing has been added
\* to the database since
EmptySinceSetup == ses.isEmpty # "unbound" /\ master = SetupMaster /\ db = EmptyDb

\* C26 as stated: the Populate Database option runs populateDatabase only
\* when the database is empty since a setup; in every other state, also
\* before any setup in the process, it reports that the database is already
\* populated and the loop continues.
C26_PopulateOnlyWhenEmpty ==
    [][PopulateChosen =>
          IF EmptySinceSetup
          THEN db' = Populated.db /\ pc' = "menu"
          ELSE /\ db' = db
               /\ last'.printed = "Database already populated."
               /\ pc' = "menu"]_vars

\* this step serves View Records after Setup Database has completed
ViewAfterSetup ==
    /\ pc = "menu"
    /\ ses.isEmpty # "unbound"
    /\ nops' = nops + 1
    /\ last'.op = "view"

\* C29 as stated: after Setup Database has completed, the console's
\* operations act on the database that setup created, the one that Populate
\* Database fills: View Records lists its tables and shows their rows.
C29_OperationsUseNewDatabase ==
    [][ViewAfterSetup =>
          /\ last'.tables = {t \in Tables : tableExists(master, t)}
          /\ last'.table # "" => last'.rows = db[last'.table]]_vars

====
